---- MODULE Spec2Model ----
(***************************************************************************)
(* Model of the family-dashboard pipeline of telaila-backend               *)
(* (src/family_dashboard_generator.py, src/beta_tester_manager.py).        *)
(*                                                                         *)
(* Text is modelled as a sequence of lower-case words.  Python's           *)
(* `kw in text` substring test becomes KwIn: a one-word keyword matches a  *)
(* word that contains it (table Subs), a several-word keyword matches the  *)
(* same words in a row.  Timestamps are day numbers; 0 is the empty string *)
(* (a record with no timestamp), which Python orders before every date.    *)
(***************************************************************************)
EXTENDS Integers, Sequences, FiniteSets, TLC

VARIABLES registry, archive, knowledge_base, conversations, report,
          events, linked, family_updates, agent_knowledge_base,
          event_mentions, next_id, requests

vars == <<registry, archive, knowledge_base, conversations, report,
          events, linked, family_updates, agent_knowledge_base,
          event_mentions, next_id, requests>>

(***************************************************************************)
(* Bounds                                                                  *)
(***************************************************************************)
MaxConvs == 2

None == "None"

(***************************************************************************)
(* Generic helpers                                                         *)
(***************************************************************************)
Min(a, b) == IF a <= b THEN a ELSE b

Max(a, b) == IF a >= b THEN a ELSE b

Range(s) == {s[i] : i \in 1..Len(s)}

RECURSIVE Concat(_)
Concat(ss) == IF ss = <<>> THEN <<>> ELSE Head(ss) \o Concat(Tail(ss))

RECURSIVE FoldLeft(_, _, _)
FoldLeft(Op(_, _), acc, s) ==
    IF s = <<>> THEN acc ELSE FoldLeft(Op, Op(acc, Head(s)), Tail(s))

(***************************************************************************)
(* Words and substring matching                                            *)
(***************************************************************************)
\* The words of the texts of the model.
Vocabulary ==
    {"a", "agent:", "are", "back", "bad", "been", "day", "did", "fall",
     "fallen", "family", "feeling", "fell", "fine", "fun", "has", "hip",
     "hurt", "hurts", "i", "in", "incident", "injury", "introduction", "is",
     "it", "knee", "ladder", "long", "much", "my", "night", "no", "not",
     "off", "on", "or", "pain", "painful", "poker", "real", "shoulder", "so",
     "sore", "sounds", "that", "the", "today", "tough", "visit", "was",
     "week", "you", ".", "-", ":", "&", "games", "wellness", "recovery",
     "health", "conversations", "by", "nature", "tree", "daughter",
     "better"}

\* The keywords of the code's tables that occur inside a word of the
\* vocabulary; every other word of the vocabulary contains none.
SubsOf(word) ==
    CASE word = "fallen"  -> {"fall", "fallen"}
      [] word = "hurts"   -> {"hurt"}
      [] word = "painful" -> {"pain", "ai"}
      [] word = "pain"    -> {"pain", "ai"}
      [] word \in {"back", "fall", "family", "fell", "fun", "hip", "hurt",
                   "knee", "ladder", "shoulder", "sore", "tough",
                   "poker", "introduction", "injury", "recovery",
                   "health", "tree", "daughter", "better"} -> {word}
      [] OTHER -> {}

SubsTable == [word \in Vocabulary |-> SubsOf(word)]

Subs(word) == IF word \in Vocabulary THEN SubsTable[word] ELSE {}

\* Length in characters of a word, for len(text).
WordLen(word) ==
    CASE word \in {"a", "i", ".", "-"} -> 1
      [] word \in {"is", "on", "my", "no", "or", "in", "so", "it", "by"} -> 2
      [] word \in {"off", "the", "hip", "did", "you", "are", "not", "fun",
                   "has", "was", "day", "bad"} -> 3
      [] word \in {"fell", "knee", "sore", "fall", "hurt", "back", "fine",
                   "real", "pain", "been", "much", "long", "week", "that",
                   "tree"} -> 4
      [] word \in {"hurts", "poker", "night", "tough", "today", "visit"} -> 5
      [] word \in {"ladder", "fallen", "family", "agent:", "sounds",
                   "nature", "better"} -> 6
      [] word \in {"feeling", "painful"} -> 7
      [] word \in {"shoulder", "daughter"} -> 8
      [] word = "introduction" -> 12
      [] OTHER -> 4

RECURSIVE SumLen(_)
SumLen(text) == IF text = <<>> THEN 0 ELSE WordLen(Head(text)) + SumLen(Tail(text))

\* len(text) of the words joined by single spaces.
CharLen(text) == IF text = <<>> THEN 0 ELSE SumLen(text) + Len(text) - 1

\* kw in text, kw a keyword given as its words.
KwIn(kw, text) ==
    IF Len(kw) = 1
    THEN \E i \in 1..Len(text) : kw[1] \in Subs(text[i])
    ELSE \E i \in 1..(Len(text) - Len(kw) + 1) :
            \A j \in 1..Len(kw) : text[i + j - 1] = kw[j]

\* any(kw in text for kw in kws)
AnyKwIn(kws, text) == \E k \in 1..Len(kws) : KwIn(kws[k], text)

(***************************************************************************)
(* Keyword tables of FamilyDashboardGenerator.__init__                     *)
(***************************************************************************)
body_parts ==
    << "back", "knee", "hip", "shoulder", "neck", "arm", "leg",
       "ankle", "wrist", "hand", "foot", "head", "chest", "stomach" >>

\* The literal list ['fell', 'fall', 'fallen', 'ladder'] of the fall tests.
fall_words == << <<"fell">>, <<"fall">>, <<"fallen">>, <<"ladder">> >>

\* str.title() of a body part or keyword.
TitleCase(word) ==
    CASE word = "back" -> "Back"
      [] word = "knee" -> "Knee"
      [] word = "hip" -> "Hip"
      [] word = "shoulder" -> "Shoulder"
      [] word = "pain" -> "Pain"
      [] word = "sore" -> "Sore"
      [] word = "hurt" -> "Hurt"
      [] word = "fall" -> "Fall"
      [] OTHER -> word

\* str.lower() of a word; the words of the texts are lower case already,
\* the words of generated titles are not.
Lower(word) ==
    CASE word = "Back" -> "back"
      [] word = "Knee" -> "knee"
      [] word = "Hip" -> "hip"
      [] word = "Shoulder" -> "shoulder"
      [] word = "Pain" -> "pain"
      [] word = "Sore" -> "sore"
      [] word = "Hurt" -> "hurt"
      [] word = "Fall" -> "fall"
      [] word = "Incident" -> "incident"
      [] word = "Injury" -> "injury"
      [] OTHER -> word

LowerText(text) == [i \in 1..Len(text) |-> Lower(text[i])]

HasFall(text) == AnyKwIn(fall_words, text)

\* _extract_body_part: the first part of body_parts that occurs in the text.
ExtractBodyPart(text) ==
    LET hits == {k \in 1..Len(body_parts) : KwIn(<<body_parts[k]>>, text)}
    IN  IF hits = {} THEN None
        ELSE body_parts[CHOOSE k \in hits : \A h \in hits : k <= h]

\* _smart_truncate on a text shorter than max_length and free of JSON
\* residue: the text, closed with a full stop.
SmartTruncate(text) ==
    IF text = <<>> THEN <<>>
    ELSE IF text[Len(text)] = "." THEN text
    ELSE Append(text, ".")

(***************************************************************************)
(* _extract_user_content                                                   *)
(* A transcript is a sequence of lines [tag, words]; tag is the speaker    *)
(* marker the line starts with ("User:", "Aila:", "Assistant:") or "" for  *)
(* a line that starts with none of them (its words are the whole line).    *)
(***************************************************************************)
UserStep(acc, line) ==
    IF line.tag = "User:"
    THEN [in_user |-> TRUE, words |-> acc.words \o line.words]
    ELSE IF line.tag \in {"Aila:", "Assistant:"}
    THEN [in_user |-> FALSE, words |-> acc.words]
    ELSE IF acc.in_user /\ line.words # <<>>
    THEN [in_user |-> TRUE, words |-> acc.words \o line.words]
    ELSE acc

ExtractUserContent(transcript) ==
    FoldLeft(UserStep, [in_user |-> FALSE, words |-> <<>>], transcript).words

(***************************************************************************)
(* _detect_health_events                                                   *)
(***************************************************************************)
\* Lines 1037-1060: the health summary of one conversation.
ScanSummary(acc, conv) ==
    IF conv.summary = <<>> THEN acc
    ELSE LET fall == HasFall(conv.summary)
             ts   == conv.timestamp
         IN [acc EXCEPT
               !.summaries = Append(@, [text |-> conv.summary, timestamp |-> ts]),
               !.has_fall = @ \/ fall,
               !.mention_count = IF fall THEN @ + 1 ELSE @,
               !.body_part = IF @ = None THEN ExtractBodyPart(conv.summary) ELSE @,
               !.first = IF ts # 0 /\ (@ = 0 \/ ts < @) THEN ts ELSE @,
               !.last = IF ts # 0 /\ (@ = 0 \/ ts > @) THEN ts ELSE @]

\* Lines 1063-1071: one red flag.
ScanFlag(acc, flag) ==
    [acc EXCEPT
       !.has_fall = @ \/ HasFall(flag),
       !.body_part = IF @ = None THEN ExtractBodyPart(flag) ELSE @]

\* Lines 1074-1085: the user's lines of the transcript.
ScanUserContent(acc, user_content) ==
    [acc EXCEPT
       !.has_fall = @ \/ HasFall(user_content),
       !.mention_count = IF HasFall(user_content) THEN @ + 1 ELSE @,
       !.body_part = IF @ = None THEN ExtractBodyPart(user_content) ELSE @]

ScanTranscript(acc, conv) ==
    IF conv.transcript = <<>> THEN acc
    ELSE ScanUserContent(acc, ExtractUserContent(conv.transcript))

ScanConversation(acc, conv) ==
    ScanTranscript(FoldLeft(ScanFlag, ScanSummary(acc, conv), conv.red_flags), conv)

\* Lines 1088-1093: the knowledge-base document.
ScanKnowledgeBase(acc, kb) ==
    IF kb = <<>> THEN acc
    ELSE [acc EXCEPT
            !.has_fall = @ \/ HasFall(kb),
            !.body_part = IF @ = None THEN ExtractBodyPart(kb) ELSE @]

\* max(all_health_summaries, key=len(text)): the first of the longest.
BestSummary(summaries) ==
    LET best == CHOOSE i \in 1..Len(summaries) :
                  /\ \A j \in 1..Len(summaries) :
                        CharLen(summaries[j].text) <= CharLen(summaries[i].text)
                  /\ \A j \in 1..(i - 1) :
                        CharLen(summaries[j].text) < CharLen(summaries[i].text)
    IN  summaries[best]

FallTitle(body_part) ==
    IF body_part # None
    THEN <<"Fall", "Incident", "-", TitleCase(body_part), "Injury">>
    ELSE <<"Fall", "Incident">>

detect_symptom_keywords == <<"pain", "sleep", "sore", "tired", "stiff">>

SymptomName(symptom, body_part) ==
    IF body_part # None /\ symptom # "sleep"
    THEN <<TitleCase(body_part), symptom>>
    ELSE IF symptom = "sleep" THEN <<"Sleep", "difficulties">>
    ELSE <<TitleCase(symptom)>>

\* Lines 1134-1156: the symptoms named in the summaries, each once.
RelatedSymptoms(summaries, body_part) ==
    LET StepSummary(acc, s) ==
            LET StepKw(a, symptom) ==
                    IF KwIn(<<symptom>>, s.text) /\ symptom \notin a.found
                    THEN [found |-> a.found \cup {symptom},
                          out |-> Append(a.out,
                                     [symptom |-> SymptomName(symptom, body_part),
                                      status |-> "ongoing"])]
                    ELSE a
            IN  FoldLeft(StepKw, acc, detect_symptom_keywords)
    IN  FoldLeft(StepSummary, [found |-> {}, out |-> <<>>], summaries).out

\* Lines 1021-1030: the locals of _detect_health_events before the loop.
NothingDetected ==
    [has_fall |-> FALSE, body_part |-> None, first |-> 0, last |-> 0,
     mention_count |-> 0, summaries |-> <<>>]

\* Lines 1095-1158: the events made of what the loops collected.
PrimaryInjury(acc) ==
    IF acc.has_fall /\ acc.summaries # <<>>
    THEN << [event_id |-> "HE_fall_001",
             type |-> "injury",
             severity |-> "high",
             title |-> FallTitle(acc.body_part),
             description |-> SmartTruncate(BestSummary(acc.summaries).text),
             detected_on |-> acc.first,
             last_mentioned |-> acc.last,
             body_part |-> acc.body_part,
             keyword |-> "fall",
             related_symptoms |-> RelatedSymptoms(acc.summaries, acc.body_part),
             status |-> "active",
             needs_family_followup |-> TRUE,
             mentions_count |-> Max(acc.mention_count, Len(acc.summaries))] >>
    ELSE <<>>

DetectHealthEvents(convs, kb) ==
    PrimaryInjury(ScanKnowledgeBase(FoldLeft(ScanConversation, NothingDetected, convs), kb))

(***************************************************************************)
(* _is_meta_quote                                                          *)
(* A regular expression of meta_patterns is a sequence of parts, each part *)
(* the set of word sequences it can match (the empty sequence for an       *)
(* optional part); its language is the set of their concatenations.        *)
(***************************************************************************)
W(word) == {<<word>>}

Alt(words) == {<<w>> : w \in words}

Opt(part) == part \cup {<<>>}

RECURSIVE Expand(_)
Expand(pattern) ==
    IF pattern = <<>> THEN {<<>>}
    ELSE {a \o b : a \in Head(pattern), b \in Expand(Tail(pattern))}

ExpandAll(patterns) == UNION {Expand(patterns[i]) : i \in 1..Len(patterns)}

\* The patterns of meta_patterns that may match anywhere in the quote.
meta_patterns_search ==
    << <<Alt({"dont", "don't"}), W("you"), Opt(W("ever")), W("sleep")>>,
       <<W("do"), W("you"), W("sleep")>>,
       <<Alt({"youre", "you're"}), Opt(Alt({"a", "an"})),
         Alt({"ai", "robot", "machine", "computer"})>>,
       <<W("as"), Opt(Alt({"a", "an"})), Alt({"ai", "artificial"})>>,
       <<W("see"), W("me"), {<<"as">>, <<"purely", "as">>}, W("fiction")>>,
       <<W("speaking"), W("with"), W("me")>>,
       <<W("talking"), W("to"), Alt({"me", "you"})>>,
       <<W("you"), Opt(Alt({"dont", "don't", "cant", "can't"})),
         Alt({"have", "feel", "experience", "understand"})>>,
       <<W("what"), W("do"), W("you"), W("think")>>,
       <<W("how"), W("do"), W("you"), W("feel")>>,
       <<W("are"), W("you"), W("real")>>,
       <<Alt({"youre", "you're"}), W("not"), Alt({"real", "human"})>>,
       <<W("artificial"), W("intelligence")>>,
       <<Alt({"youre", "you're"}), W("programmed")>>,
       <<W("your"), W("programming")>>,
       <<W("this"), W("conversation")>>,
       <<Alt({"were", "we're"}), Opt(W("just")), W("talking")>>,
       <<W("you"), W("asked")>>,
       <<W("i"), W("asked"), W("you")>>,
       <<W("let"), W("me"), W("ask")>>,
       <<Alt({"thats", "that's"}), W("a"), W("good"), W("question")>>,
       <<W("i"), W("think"), W("them"), W("through")>> >>

\* The patterns anchored at the start of the quote (^...).
meta_patterns_start ==
    << <<Alt({"well", "well,"}), W("i"), Opt(W("do")),
         Alt({"think", "guess", "suppose"})>>,
       <<Alt({"im", "i'm"}), W("not"), W("sure")>>,
       <<W("i"), Alt({"would", "could"}), W("say")>>,
       <<Alt({"its", "it's"}), Alt({"hard", "difficult"}), W("to"),
         Alt({"say", "explain"})>>,
       <<W("that"), W("depends")>>,
       <<W("in"), W("a"), W("way")>>,
       <<W("sort"), W("of")>>,
       <<W("kind"), W("of")>>,
       <<W("i"), W("mean")>> >>

\* The patterns that must match the whole quote (^...$).
meta_patterns_whole ==
    << <<Alt({"yes", "no", "okay", "ok", "sure", "right", "yeah", "yep",
              "nope", "maybe", "hmm", "huh", "well"})>>,
       <<W("i"), Alt({"think", "guess", "suppose"}), W("so")>>,
       <<Alt({"thats", "that's"}), Alt({"right", "true", "correct"})>>,
       <<W("i"), Alt({"dont", "don't"}), W("know")>>,
       <<W("not"), W("really")>> >>

meta_search_phrases == ExpandAll(meta_patterns_search)

meta_start_phrases == ExpandAll(meta_patterns_start)

meta_whole_phrases == ExpandAll(meta_patterns_whole)

\* The words of phrase, in a row, from position i of text.
PhraseAt(phrase, text, i) ==
    /\ i + Len(phrase) - 1 <= Len(text)
    /\ \A j \in 1..Len(phrase) : text[i + j - 1] = phrase[j]

\* meta_keywords without the two spaced entries 'ai ' and ' ai'.
meta_keywords ==
    << <<"aila">>, <<"robot">>, <<"artificial">>, <<"programmed">>,
       <<"machine">>, <<"computer">>, <<"algorithm">> >>

\* 'ai ' in quote: a word ending in "ai" that is not the last word;
\* ' ai' in quote: a word starting with "ai" that is not the first word.
EndsInAi(word) == word = "ai"

StartsWithAi(word) == word \in {"ai", "aila"}

is_meta_quote(quote) ==
    \/ quote = <<>>
    \/ \E phrase \in meta_search_phrases :
          \E i \in 1..Len(quote) : PhraseAt(phrase, quote, i)
    \/ \E phrase \in meta_start_phrases : PhraseAt(phrase, quote, 1)
    \/ quote \in meta_whole_phrases
    \/ AnyKwIn(meta_keywords, quote)
    \/ \E i \in 1..(Len(quote) - 1) : EndsInAi(quote[i])
    \/ \E i \in 2..Len(quote) : StartsWithAi(quote[i])

(***************************************************************************)
(* _analyze_quote_sentiment                                                *)
(***************************************************************************)
pain_words ==
    <<
       <<"pain">>, <<"hurt">>, <<"sore">>, <<"ache">>,
       <<"bruise">>, <<"injured">>, <<"injury">>, <<"stiff">>,
       <<"swollen">>, <<"inflammation">>, <<"discomfort">>
    >>

struggle_words ==
    <<
       <<"tough">>, <<"difficult">>, <<"hard", "time">>, <<"couldn't">>,
       <<"can't">>, <<"struggle">>, <<"terrible">>, <<"awful">>,
       <<"worst">>, <<"rough">>, <<"trouble", "sleeping">>, <<"couldn't", "sleep">>,
       <<"can't", "sleep">>
    >>

recovery_words ==
    <<
       <<"better">>, <<"improving">>, <<"healing">>, <<"recovered">>,
       <<"getting", "better">>, <<"feeling", "better">>, <<"bit", "better">>, <<"little", "better">>
    >>

worry_words ==
    <<
       <<"worried">>, <<"anxious">>, <<"nervous">>, <<"scared">>,
       <<"afraid">>, <<"concern">>
    >>

gratitude_words ==
    <<
       <<"grateful">>, <<"thankful">>, <<"blessed">>, <<"appreciate">>,
       <<"lucky">>
    >>

joy_words ==
    <<
       <<"love">>, <<"enjoy">>, <<"wonderful">>, <<"amazing">>,
       <<"fantastic">>, <<"great", "time">>, <<"rewarding">>, <<"beautiful">>,
       <<"exciting">>, <<"fun">>
    >>

nostalgia_words ==
    <<
       <<"remember">>, <<"years", "ago">>, <<"used", "to">>, <<"back", "then">>,
       <<"childhood">>, <<"grew", "up">>, <<"when", "i", "was">>, <<"memories">>
    >>

wisdom_words ==
    <<
       <<"learn">>, <<"realize">>, <<"understand">>, <<"life", "is">>,
       <<"important", "thing">>, <<"adventure">>, <<"perspective">>, <<"open-minded">>
    >>

\* (analyze_quote_sentiment_Default: the conversation's mood, whatever
\* the quote says.)
analyze_quote_sentiment_Default(quote, default_label) == default_label

analyze_quote_sentiment(quote, default_label) ==
    IF quote = <<>> THEN default_label
    ELSE IF AnyKwIn(pain_words, quote) THEN "Persevering"
    ELSE IF AnyKwIn(struggle_words, quote) THEN "Struggling"
    ELSE IF AnyKwIn(recovery_words, quote) THEN "Recovering"
    ELSE IF AnyKwIn(worry_words, quote) THEN "Concerned"
    ELSE IF AnyKwIn(gratitude_words, quote) THEN "Grateful"
    ELSE IF AnyKwIn(joy_words, quote) THEN "Happy"
    ELSE IF AnyKwIn(nostalgia_words, quote) THEN "Nostalgic"
    ELSE IF AnyKwIn(wisdom_words, quote) THEN "Reflective"
    ELSE default_label

\* Lines 722-729: the label of the conversation's mood.  A mood is one of
\* the analyzer's mood words.
ConvMoodLabel(mood) ==
    IF mood \in {"positive", "happy", "good", "cheerful"} THEN "Happy"
    ELSE IF mood \in {"negative", "sad", "upset", "worried"} THEN "Reflective"
    ELSE "Relaxed"

(***************************************************************************)
(* Theme tables: topic_categories, category_blockers, meta_topic_patterns  *)
(***************************************************************************)
topic_categories ==
    <<
       [category |-> "shopping",
        keywords |-> << <<"bookstore">>, <<"shop">>, <<"shopping">>, <<"store">>, <<"market">>, <<"buy">>, <<"bought">> >>],
       [category |-> "pets",
        keywords |-> << <<"dog">>, <<"cat">>, <<"cats">>, <<"pet">>, <<"animal">>, <<"kitten">>, <<"puppy">> >>],
       [category |-> "weather",
        keywords |-> << <<"weather">>, <<"rain">>, <<"sunny">>, <<"cold">>, <<"warm">>, <<"snow">> >>],
       [category |-> "books",
        keywords |-> << <<"book">>, <<"read">>, <<"reading">>, <<"mystery">>, <<"novel">>, <<"show">>, <<"tv">>, <<"author">>, <<"library">> >>],
       [category |-> "family",
        keywords |-> << <<"family">>, <<"daughter">>, <<"son">>, <<"wife">>, <<"husband">>, <<"grandkid">>, <<"grandson">>, <<"granddaughter">>, <<"mother">>, <<"father">>, <<"sister">>, <<"brother">>, <<"parent">>, <<"child">>, <<"kids">>, <<"visit", "with", "son">>, <<"visit", "with", "daughter">>, <<"son's", "visit">>, <<"daughter's", "visit">> >>],
       [category |-> "health",
        keywords |-> << <<"health">>, <<"doctor">>, <<"hospital">>, <<"pain">>, <<"sick">>, <<"medicine">>, <<"injury">>, <<"recovery">>, <<"appointment">>, <<"eye", "doctor">> >>],
       [category |-> "travel",
        keywords |-> << <<"travel">>, <<"trip">>, <<"vacation">>, <<"journey">>, <<"flight">>, <<"cruise">>, <<"adventure">> >>],
       [category |-> "home",
        keywords |-> << <<"home">>, <<"house">>, <<"apartment">>, <<"moved">>, <<"neighborhood">>, <<"routine">>, <<"morning">> >>],
       [category |-> "work",
        keywords |-> << <<"work">>, <<"job">>, <<"career">>, <<"business">>, <<"office">>, <<"retired">>, <<"profession">> >>],
       [category |-> "hobbies",
        keywords |-> << <<"hobby">>, <<"craft">>, <<"collect">>, <<"build">>, <<"create">>, <<"project">>, <<"knitting">>, <<"sewing">>, <<"woodworking">> >>],
       [category |-> "friends",
        keywords |-> << <<"friend">>, <<"neighbor">>, <<"community">>, <<"club">>, <<"group">>, <<"reconnect">> >>],
       [category |-> "memories",
        keywords |-> << <<"remember">>, <<"childhood">>, <<"grew", "up">>, <<"years", "ago">>, <<"used", "to">>, <<"back", "then">>, <<"history">> >>],
       [category |-> "food",
        keywords |-> << <<"cook">>, <<"recipe">>, <<"food">>, <<"meal">>, <<"baking">>, <<"kitchen">>, <<"tea">> >>],
       [category |-> "nature",
        keywords |-> << <<"garden">>, <<"flowers">>, <<"plants">>, <<"outdoors">>, <<"birds">>, <<"spring">>, <<"crocus">>, <<"bloom">>, <<"tree">> >>],
       [category |-> "music",
        keywords |-> << <<"music">>, <<"song">>, <<"sing">>, <<"instrument">>, <<"concert">> >>],
       [category |-> "sports",
        keywords |-> << <<"golf">>, <<"fishing">>, <<"sports">>, <<"game">>, <<"exercise">>, <<"walk">>, <<"walking">> >>],
       [category |-> "faith",
        keywords |-> << <<"church">>, <<"faith">>, <<"pray">>, <<"god">>, <<"spiritual">>, <<"religion">> >>]
    >>

category_blockers(category) ==
    IF category = "nature"
    THEN << <<"nature", "of">>, <<"human", "nature">>, <<"by", "nature">> >>
    ELSE <<>>

\* meta_topic_patterns, as is_meta_quote's patterns; re.search finds them
\* anywhere in the topic.
meta_topic_patterns ==
    << <<W("introduction")>>,
       <<W("purpose"), W("of"), Alt({"call", "conversation"})>>,
       <<W("getting"), W("to"), W("know")>>,
       <<W("first"), Alt({"call", "conversation", "chat"})>>,
       <<W("how"), {<<"aila">>, <<"the", "system">>}, W("works")>>,
       <<Alt({"explain", "explaining"}), Alt({"the", "how"})>> >>

meta_topic_phrases == ExpandAll(meta_topic_patterns)

is_meta_topic(topic) ==
    /\ topic # <<>>
    /\ \E phrase \in meta_topic_phrases :
          \/ Len(phrase) = 1 /\ KwIn(phrase, topic)
          \/ Len(phrase) > 1 /\ \E i \in 1..Len(topic) : PhraseAt(phrase, topic, i)

\* The first broad category with a keyword in the text that no blocker
\* phrase of the category blocks; "" when there is none.
FirstCategory(text) ==
    LET hits == {k \in 1..Len(topic_categories) :
                   /\ ~AnyKwIn(category_blockers(topic_categories[k].category), text)
                   /\ AnyKwIn(topic_categories[k].keywords, text)}
    IN  IF hits = {} THEN ""
        ELSE topic_categories[CHOOSE k \in hits : \A h \in hits : k <= h].category

\* The value of the first entry of an ordered table [key, theme] whose key
\* is in the text; "" when there is none.
FirstKey(table, text) ==
    LET hits == {k \in 1..Len(table) : KwIn(table[k].key, text)}
    IN  IF hits = {} THEN ""
        ELSE table[CHOOSE k \in hits : \A h \in hits : k <= h].theme

(***************************************************************************)
(* _normalize_theme_id                                                     *)
(***************************************************************************)
specific_topics ==
    <<
       [key |-> <<"snowbird">>, theme |-> "snowbird"],
       [key |-> <<"poker">>, theme |-> "poker"],
       [key |-> <<"rv", "life">>, theme |-> "rv_life"],
       [key |-> <<"rv">>, theme |-> "rv_life"],
       [key |-> <<"rv", "water">>, theme |-> "rv_life"],
       [key |-> <<"trailer", "park">>, theme |-> "rv_life"],
       [key |-> <<"dinner", "out">>, theme |-> "social_outings"],
       [key |-> <<"dinner", "with">>, theme |-> "social_outings"],
       [key |-> <<"lunch", "out">>, theme |-> "social_outings"],
       [key |-> <<"lunch", "with">>, theme |-> "social_outings"],
       [key |-> <<"restaurant">>, theme |-> "social_outings"],
       [key |-> <<"chinese", "food">>, theme |-> "social_outings"],
       [key |-> <<"sushi">>, theme |-> "social_outings"],
       [key |-> <<"storage", "facility">>, theme |-> "daily_errands"],
       [key |-> <<"lockout">>, theme |-> "daily_errands"],
       [key |-> <<"getting", "keys">>, theme |-> "daily_errands"],
       [key |-> <<"visitors", "to">>, theme |-> "visitors"],
       [key |-> <<"canadian", "visitors">>, theme |-> "visitors"],
       [key |-> <<"nature", "of", "ai">>, theme |-> "conversations"],
       [key |-> <<"nature", "of", "consciousness">>, theme |-> "conversations"],
       [key |-> <<"ai", "consciousness">>, theme |-> "conversations"],
       [key |-> <<"human", "vs", "ai">>, theme |-> "conversations"],
       [key |-> <<"problem-solving">>, theme |-> "conversations"]
    >>

common_words ==
    {"a", "about", "adventures", "an", "and", "at", "by",
     "challenges", "conditions", "connections", "facility", "for", "in", "incident",
     "lifestyle", "like", "living", "management", "new", "of", "old",
     "on", "or", "outing", "perspectives", "progress", "question", "recent",
     "technical", "the", "to", "with"}

word_mappings(word) ==
    CASE word = "back" -> "health_recovery"
      [] word = "sleep" -> "health_recovery"
      [] word = "pain" -> "health_recovery"
      [] word = "injury" -> "health_recovery"
      [] word = "recovery" -> "health_recovery"
      [] word = "canadian" -> "visitors"
      [] word = "visitors" -> "visitors"
      [] word = "human" -> "conversations"
      [] word = "consciousness" -> "conversations"
      [] word = "empathy" -> "conversations"
      [] word = "problem" -> "conversations"
      [] word = "solving" -> "conversations"
      [] word = "capabilities" -> "conversations"
      [] word = "emergency" -> "daily_life"
      [] word = "contact" -> "daily_life"
      [] word = "errands" -> "daily_errands"
      [] word = "keys" -> "daily_errands"
      [] word = "storage" -> "daily_errands"
      [] word = "water" -> "rv_life"
      [] word = "tank" -> "rv_life"
      [] OTHER -> word

\* The first word of the topic that is not a common word and is longer
\* than two letters; "" when there is none.
PrimaryWord(topic) ==
    LET hits == {k \in 1..Len(topic) :
                   topic[k] \notin common_words /\ WordLen(topic[k]) > 2}
    IN  IF hits = {} THEN ""
        ELSE topic[CHOOSE k \in hits : \A h \in hits : k <= h]

\* The three priorities of _normalize_theme_id, lines 515-597.
NormalizeBy(specific, category, primary_word) ==
    IF specific # "" THEN specific
    ELSE IF category # "" THEN category
    ELSE IF primary_word # "" THEN word_mappings(primary_word)
    ELSE "general"

normalize_theme_id(topic) ==
    IF topic = <<>> THEN "general"
    ELSE NormalizeBy(FirstKey(specific_topics, topic), FirstCategory(topic),
                     PrimaryWord(topic))

(***************************************************************************)
(* _categorize_quote                                                       *)
(***************************************************************************)
specific_keywords ==
    <<
       [key |-> <<"snowbird">>, theme |-> "snowbird"],
       [key |-> <<"snow", "bird">>, theme |-> "snowbird"],
       [key |-> <<"rv", "life">>, theme |-> "rv_life"],
       [key |-> <<"rv", "community">>, theme |-> "rv_life"],
       [key |-> <<"rv", "park">>, theme |-> "rv_life"],
       [key |-> <<"trailer", "park">>, theme |-> "rv_life"],
       [key |-> <<"arizona">>, theme |-> "snowbird"],
       [key |-> <<"winter", "in">>, theme |-> "snowbird"],
       [key |-> <<"poker">>, theme |-> "poker"],
       [key |-> <<"card", "game">>, theme |-> "poker"],
       [key |-> <<"dinner", "out">>, theme |-> "social_outings"],
       [key |-> <<"went", "to", "dinner">>, theme |-> "social_outings"],
       [key |-> <<"restaurant">>, theme |-> "social_outings"],
       [key |-> <<"chinese", "food">>, theme |-> "social_outings"],
       [key |-> <<"sushi">>, theme |-> "social_outings"],
       [key |-> <<"my", "son">>, theme |-> "family"],
       [key |-> <<"my", "daughter">>, theme |-> "family"],
       [key |-> <<"my", "wife">>, theme |-> "family"],
       [key |-> <<"my", "husband">>, theme |-> "family"],
       [key |-> <<"grandkid">>, theme |-> "family"],
       [key |-> <<"grandchild">>, theme |-> "family"],
       [key |-> <<"crocus">>, theme |-> "nature"],
       [key |-> <<"flower">>, theme |-> "nature"],
       [key |-> <<"garden">>, theme |-> "nature"],
       [key |-> <<"spring">>, theme |-> "nature"],
       [key |-> <<"bloom">>, theme |-> "nature"],
       [key |-> <<"my", "cat">>, theme |-> "pets"],
       [key |-> <<"my", "dog">>, theme |-> "pets"],
       [key |-> <<"the", "cat">>, theme |-> "pets"],
       [key |-> <<"the", "dog">>, theme |-> "pets"],
       [key |-> <<"fell", "off">>, theme |-> "health_recovery"],
       [key |-> <<"back", "injury">>, theme |-> "health_recovery"],
       [key |-> <<"back", "pain">>, theme |-> "health_recovery"],
       [key |-> <<"bruised">>, theme |-> "health_recovery"],
       [key |-> <<"hurt", "when">>, theme |-> "health_recovery"],
       [key |-> <<"getting", "better">>, theme |-> "health_recovery"],
       [key |-> <<"little", "bit", "better">>, theme |-> "health_recovery"],
       [key |-> <<"recovery">>, theme |-> "health_recovery"],
       [key |-> <<"fell", "and">>, theme |-> "health_recovery"],
       [key |-> <<"fall", "and">>, theme |-> "health_recovery"],
       [key |-> <<"hit", "the", "concrete">>, theme |-> "health_recovery"],
       [key |-> <<"muscles">>, theme |-> "health_recovery"],
       [key |-> <<"doctor">>, theme |-> "health"],
       [key |-> <<"hospital">>, theme |-> "health"],
       [key |-> <<"book">>, theme |-> "books"],
       [key |-> <<"reading">>, theme |-> "books"],
       [key |-> <<"tv", "show">>, theme |-> "books"],
       [key |-> <<"watching">>, theme |-> "books"],
       [key |-> <<"my", "friend">>, theme |-> "friends"],
       [key |-> <<"old", "friend">>, theme |-> "friends"],
       [key |-> <<"friendship">>, theme |-> "friends"]
    >>

\* Lines 949-953: the theme of the first topic that is not a meta topic.
TopicFallback(topics) ==
    LET hits == {k \in 1..Len(topics) : topics[k] # <<>> /\ ~is_meta_topic(topics[k])}
    IN  IF hits = {} THEN "general"
        ELSE normalize_theme_id(topics[CHOOSE k \in hits : \A h \in hits : k <= h])

\* The three priorities of _categorize_quote, lines 926-955.
CategorizeBy_CategoryFirst(specific, category, conversation_topics) ==
    IF category # "" THEN category
    ELSE IF specific # "" THEN specific
    ELSE TopicFallback(conversation_topics)

CategorizeBy(specific, category, conversation_topics) ==
    IF specific # "" THEN specific
    ELSE IF category # "" THEN category
    ELSE TopicFallback(conversation_topics)

categorize_quote(quote, conversation_topics) ==
    CategorizeBy(FirstKey(specific_keywords, quote), FirstCategory(quote),
                 conversation_topics)

(***************************************************************************)
(* _build_in_their_words                                                   *)
(***************************************************************************)
MinQuoteWords == 5

MaxThemeQuotes == 5

meta_themes == {"introduction", "conversations", "general"}

\* Lines 733-745: the filter stage.  A quote passes when it is non-empty,
\* is not a meta quote and has at least five words.
\* (SurvivesFilter_NonEmpty: only the test of line 733.)
SurvivesFilter_NonEmpty(quote) == quote # <<>>

SurvivesFilter(quote) ==
    /\ quote # <<>>
    /\ ~is_meta_quote(quote)
    /\ ~(Len(quote) < MinQuoteWords)

\* Lines 751-758: for a meta theme, the first topic that is not a meta
\* topic and normalizes to a real theme replaces it.
RetryTheme(theme_id, topics) ==
    IF theme_id \notin meta_themes THEN theme_id
    ELSE LET hits == {k \in 1..Len(topics) :
                        /\ topics[k] # <<>>
                        /\ ~is_meta_topic(topics[k])
                        /\ normalize_theme_id(topics[k]) \notin meta_themes}
         IN  IF hits = {} THEN theme_id
             ELSE normalize_theme_id(topics[CHOOSE k \in hits : \A h \in hits : k <= h])

QuoteTheme(quote, topics) == RetryTheme(categorize_quote(quote, topics), topics)

\* theme_data[theme_id]['quotes'].append(entry); theme_data is a sequence
\* of [theme_id, quotes] in order of first use (dict insertion order).
AddToTheme(theme_data, theme_id, entry) ==
    IF \E k \in 1..Len(theme_data) : theme_data[k].theme_id = theme_id
    THEN [k \in 1..Len(theme_data) |->
            IF theme_data[k].theme_id = theme_id
            THEN [theme_data[k] EXCEPT !.quotes = Append(@, entry)]
            ELSE theme_data[k]]
    ELSE Append(theme_data, [theme_id |-> theme_id, quotes |-> <<entry>>])

\* Lines 713-790: the quotes of one conversation.
\* Lines 760-780: a quote of theme theme_id is stored, unless still generic.
StoreQuote(theme_data, theme_id, quote, conv) ==
    IF theme_id = "general" THEN theme_data
    ELSE AddToTheme(theme_data, theme_id,
            [quote |-> quote,
             timestamp |-> conv.timestamp,
             mood |-> analyze_quote_sentiment(quote, ConvMoodLabel(conv.mood))])

CollectConversation(theme_data, conv) ==
    LET Step(data, quote) ==
            IF ~SurvivesFilter(quote) THEN data
            ELSE StoreQuote(data, QuoteTheme(quote, conv.topics), quote, conv)
    IN  FoldLeft(Step, theme_data, conv.quotes)

\* _generate_theme_display_name, in lower case: the words is_meta_topic sees.
ThemeDisplayName(theme_id) ==
    CASE theme_id = "family" -> <<"family">>
      [] theme_id = "health" -> <<"health", "&", "wellness">>
      [] theme_id = "poker" -> <<"poker", "&", "games">>
      [] theme_id = "health_recovery" -> <<"health", "&", "recovery">>
      [] theme_id = "conversations" -> <<"conversations">>
      [] OTHER -> <<theme_id>>

\* Lines 808-815: the first quote of every key q.lower().strip()[:50]; the
\* quotes of the model are shorter than 50 characters, the key is the quote.
UniqueQuotes(quotes) ==
    LET Step(acc, q) ==
            IF \E k \in 1..Len(acc) : acc[k].quote = q.quote THEN acc
            ELSE Append(acc, q)
    IN  FoldLeft(Step, <<>>, quotes)

\* list.sort(key=..., reverse=True): descending, equal keys keep their order.
RECURSIVE InsertDesc(_, _, _)
InsertDesc(Key(_), x, sorted) ==
    IF sorted = <<>> THEN <<x>>
    ELSE IF Key(Head(sorted)) >= Key(x)
    THEN <<Head(sorted)>> \o InsertDesc(Key, x, Tail(sorted))
    ELSE <<x>> \o sorted

RECURSIVE SortDesc(_, _)
SortDesc(Key(_), s) ==
    IF s = <<>> THEN <<>>
    ELSE InsertDesc(Key, s[Len(s)], SortDesc(Key, SubSeq(s, 1, Len(s) - 1)))

Take(s, n) == SubSeq(s, 1, Min(n, Len(s)))

\* Lines 792-833: one entry of the final themes list.
ThemeEntry(theme_id, unique_quotes) ==
    [theme_id |-> theme_id,
     theme_name |-> ThemeDisplayName(theme_id),
     quotes |-> Take(unique_quotes, MaxThemeQuotes),
     total_quotes |-> Len(unique_quotes)]

BuildTheme(data) ==
    LET TimestampOf(q) == q.timestamp
    IN  ThemeEntry(data.theme_id, SortDesc(TimestampOf, UniqueQuotes(data.quotes)))

\* Lines 801-804: the themes that are not meta themes.
KeptThemes(theme_data) ==
    SelectSeq(theme_data,
        LAMBDA d : /\ ~is_meta_topic(ThemeDisplayName(d.theme_id))
                   /\ ~is_meta_topic(<<d.theme_id>>))

BuildThemes(kept) == [k \in 1..Len(kept) |-> BuildTheme(kept[k])]

\* Lines 835-842: the themes, the one with the most quotes first.
ThemesReport(themes) ==
    LET TotalOf(t) == t.total_quotes
    IN  [themes |-> SortDesc(TotalOf, themes),
         total_themes |-> Len(themes)]

build_in_their_words(convs) ==
    ThemesReport(BuildThemes(KeptThemes(FoldLeft(CollectConversation, <<>>, convs))))

(***************************************************************************)
(* _generate_life_story: the themes section                                *)
(***************************************************************************)
MaxStoryThemes == 6

MaxThemeStories == 4

\* Lines 2328-2335: the stories of a theme.
Stories(quotes) ==
    [j \in 1..Len(quotes) |->
        [excerpt |-> quotes[j].quote, date_shared |-> quotes[j].timestamp]]

\* Lines 2321-2343: the themes of the section.
StoryThemes(top) ==
    [k \in 1..Len(top) |->
        [id |-> top[k].theme_id,
         title |-> top[k].theme_name,
         story_count |-> Len(top[k].quotes),
         stories |-> Stories(Take(top[k].quotes, MaxThemeStories))]]

generate_life_story(convs) ==
    [themes |-> StoryThemes(Take(build_in_their_words(convs).themes, MaxStoryThemes))]

\* Lines 2287-2318: the progress of the biography.
MaxCompleteness == 95

MinCompleteness == 5

LowCompleteness == 10

ConversationWeight == 3

RECURSIVE SumTotalQuotes(_)
SumTotalQuotes(themes) ==
    IF themes = <<>> THEN 0
    ELSE Head(themes).total_quotes + SumTotalQuotes(Tail(themes))

\* Lines 2297-2299. int((n / 100) * 100) is n for every n of the model (it is
\* n - 1 for 29, 57 and 58 only).
Completeness(total_stories, total_conversations) ==
    LET completeness == Min(MaxCompleteness, total_stories)
    IN  IF completeness < LowCompleteness
        THEN Max(MinCompleteness, total_conversations * ConversationWeight)
        ELSE completeness

life_story_progress(convs) ==
    LET themes_data == build_in_their_words(convs).themes
    IN  [total_conversations |-> Len(convs),
         total_stories |-> SumTotalQuotes(themes_data),
         total_themes |-> Len(themes_data),
         completeness_percent |->
             Completeness(SumTotalQuotes(themes_data), Len(convs))]

(***************************************************************************)
(* _generate_summary, _generate_weekly_updates, _generate_health_insights_v2,*)
(* _identify_alerts: the parts of each section that the report's consumers *)
(* below read.                                                             *)
(***************************************************************************)
\* datetime.now(self.local_tz), as a day number.
Now == 10

WeekDays == 7

ActiveDays == 7

RecentConvs == 3

MaxAlerts == 5

generate_summary(convs) ==
    IF convs = <<>>
    THEN [total_conversations |-> 0,
          days_since_last_conversation |-> None,
          status |-> "no_conversations"]
    ELSE LET last_ts == convs[Len(convs)].timestamp
         IN  [total_conversations |-> Len(convs),
              days_since_last_conversation |->
                  IF last_ts = 0 THEN None ELSE Now - last_ts,
              \* 'active' if days_since and days_since < 7 else 'inactive'
              status |-> IF last_ts # 0 /\ Now - last_ts # 0
                            /\ Now - last_ts < ActiveDays
                         THEN "active" ELSE "inactive"]

MaxHighlights == 7

\* Lines 1635-1638: ts and conv_time >= week_start.
InWeek_Strict(conv) ==
    conv.timestamp # 0 /\ conv.timestamp > Now - WeekDays

InWeek(conv) ==
    conv.timestamp # 0 /\ conv.timestamp >= Now - WeekDays

Reverse(s) == [k \in 1..Len(s) |-> s[Len(s) + 1 - k]]

\* The mood label of a highlight.
HighlightMood(mood) ==
    CASE mood = "positive" -> "Positive"
      [] mood = "negative" -> "Reflective"
      [] OTHER -> "Neutral"

\* _generate_weekly_highlights: one entry per conversation, the last of
\* the list first; day_date 0 stands for 'Unknown'.
generate_weekly_highlights(week_convs) ==
    Take([k \in 1..Len(week_convs) |->
            [day_date |-> Reverse(week_convs)[k].timestamp,
             mood |-> HighlightMood(Reverse(week_convs)[k].mood)]],
         MaxHighlights)

\* Lines 1640-1646: the conversations the section is made of.
WeekConvs(convs) ==
    IF SelectSeq(convs, InWeek) # <<>> THEN SelectSeq(convs, InWeek)
    ELSE IF Len(convs) >= RecentConvs
    THEN SubSeq(convs, Len(convs) - RecentConvs + 1, Len(convs))
    ELSE convs

generate_weekly_updates(convs) ==
    IF WeekConvs(convs) = <<>>
    THEN [count |-> 0, period |-> "This Week", latest_conversation |-> None,
          highlights |-> <<>>]
    ELSE [count |-> Len(WeekConvs(convs)),
          period |-> IF SelectSeq(convs, InWeek) # <<>>
                     THEN "This Week" ELSE "Recent",
          latest_conversation |-> WeekConvs(convs)[Len(WeekConvs(convs))].timestamp,
          highlights |-> generate_weekly_highlights(WeekConvs(convs))]

\* Lines 2019-2020: the clock of the server, the 3rd of November, and the
\* length of the window of the timeline.
FirstOfNovember == Now - 2

OctoberDays == 31

TimelineDays == 14

PlaceholderDays == 7

PlaceholderWellbeing == 85

MinWellbeing == 60

MaxWellbeing == 100

\* conv_time.strftime('%b %d'): the abbreviated month and the day of the
\* month in two digits.
DateKey(day) ==
    IF day >= FirstOfNovember
    THEN [month |-> "Nov", day |-> day - FirstOfNovember + 1]
    ELSE [month |-> "Oct", day |-> day - FirstOfNovember + 1 + OctoberDays]

\* The position of a month abbreviation among the twelve in the order of
\* str, and with it the order of two '%b %d' strings.
AlphabeticalRank ==
    [Apr |-> 1, Aug |-> 2, Dec |-> 3, Feb |-> 4, Jan |-> 5, Jul |-> 6,
     Jun |-> 7, Mar |-> 8, May |-> 9, Nov |-> 10, Oct |-> 11, Sep |-> 12]

StrRank(date_key) == AlphabeticalRank[date_key.month] * 100 + date_key.day

\* sorted(daily_scores.keys())
RECURSIVE SortedKeys(_)
SortedKeys(keys) ==
    IF keys = {} THEN <<>>
    ELSE LET first == CHOOSE k \in keys : \A o \in keys : StrRank(k) <= StrRank(o)
         IN  <<first>> \o SortedKeys(keys \ {first})

\* Lines 2042-2049: the base score of a mood.
MoodScore(mood) ==
    CASE mood = "positive" -> 90
      [] mood = "negative" -> 70
      [] OTHER -> 82

\* Lines 2051-2061: the score of one conversation.
WellbeingScore(conv) ==
    LET flagged == IF conv.red_flags # <<>> THEN 10 ELSE 0
        unwell  == IF AnyKwIn(<< <<"not", "feeling", "well">>, <<"tired">>,
                                 <<"pain">>, <<"hurt">> >>,
                              LowerText(conv.summary))
                   THEN 8 ELSE 0
        better  == IF AnyKwIn(<< <<"better">>, <<"improving">>, <<"good">> >>,
                              LowerText(conv.summary))
                   THEN 5 ELSE 0
    IN  Max(MinWellbeing,
            Min(MaxWellbeing, MoodScore(conv.mood) - flagged - unwell + better))

\* Lines 2027-2034: the conversations of the last two weeks.
InTimeline(conv) ==
    conv.timestamp # 0 /\ conv.timestamp >= Now - TimelineDays

\* Lines 2022-2095: one entry per date key, the score of the last
\* conversation of that key, the keys in the order of sorted(); seven
\* placeholder days when no conversation is in the window.
wellbeing_timeline(convs) ==
    LET recent == SelectSeq(convs, InTimeline)
        keys == SortedKeys({ DateKey(recent[k].timestamp) : k \in 1..Len(recent) })
        LastOf(key) ==
            CHOOSE k \in 1..Len(recent) :
                /\ DateKey(recent[k].timestamp) = key
                /\ \A l \in (k + 1)..Len(recent) :
                      DateKey(recent[l].timestamp) # key
    IN  IF keys = <<>>
        THEN [i \in 1..PlaceholderDays |->
                 [date |-> DateKey(Now - PlaceholderDays + i),
                  wellbeing |-> PlaceholderWellbeing]]
        ELSE [i \in 1..Len(keys) |->
                 [date |-> keys[i],
                  wellbeing |-> WellbeingScore(recent[LastOf(keys[i])])]]

\* Lines 2097-2125: the alert of health_insights.
generate_health_insights(convs, health_events) ==
    LET recent == SubSeq(convs, Max(1, Len(convs) - RecentConvs + 1), Len(convs))
    IN  [alert |->
           IF health_events # <<>>
           THEN [title |-> "Health Note",
                 severity |-> IF health_events[Len(health_events)].severity = "high"
                              THEN "warning" ELSE "info"]
           ELSE IF \E k \in 1..Len(recent) : recent[k].red_flags # <<>>
           THEN [title |-> "Minor Health Note", severity |-> "info"]
           ELSE [title |-> None, severity |-> None]]

false_alarm_keywords ==
    << <<"technical">>, <<"ai">>, <<"glitch">>, <<"error">>, <<"system">>,
       <<"connectivity">> >>

is_false_alarm(flag) == flag = <<>> \/ AnyKwIn(false_alarm_keywords, flag)

\* Lines 2746-2765: one alert for every high-severity event, a fall once.
EventAlerts(health_events) ==
    LET Step(acc, e) ==
            IF e.severity = "high" /\ e.needs_family_followup
            THEN IF KwIn(<<"fall">>, LowerText(e.title)) /\ acc.fall_added THEN acc
                 ELSE [fall_added |-> acc.fall_added
                                        \/ KwIn(<<"fall">>, LowerText(e.title)),
                       out |-> Append(acc.out,
                                  [type |-> "health_event",
                                   message |-> e.title \o <<":">> \o e.description,
                                   date |-> e.detected_on])]
            ELSE acc
    IN  FoldLeft(Step, [fall_added |-> FALSE, out |-> <<>>], health_events).out

\* Lines 2767-2782: the red flags, unless a high-severity event exists.
FlagAlerts(convs, health_events) ==
    LET covered == \E k \in 1..Len(health_events) : health_events[k].severity = "high"
        OfConv(c) ==
            LET kept == SelectSeq(c.red_flags,
                           LAMBDA f : ~is_false_alarm(f) /\ ~covered)
            IN  [k \in 1..Len(kept) |->
                   [type |-> "health_concern", message |-> kept[k],
                    date |-> c.timestamp]]
    IN  Concat([k \in 1..Len(convs) |-> OfConv(convs[k])])

\* Lines 2784-2799: the key of an alert for de-duplication; a message
\* without "fall" is shorter than 50 characters in the model, so msg[:50]
\* is the message.
DedupKey(message) ==
    IF KwIn(<<"fall">>, LowerText(message))
    THEN <<"fall_incident">> ELSE LowerText(message)

identify_alerts(convs, health_events) ==
    LET alerts == EventAlerts(health_events) \o FlagAlerts(convs, health_events)
        Step(acc, a) ==
            IF \E k \in 1..Len(acc) : DedupKey(acc[k].message) = DedupKey(a.message)
            THEN acc ELSE Append(acc, a)
    IN  Take(FoldLeft(Step, <<>>, alerts), MaxAlerts)

\* _analyze_biography_progress: the records of the model carry no
\* biography, so no story is captured; the document is counted in words.
analyze_biography_progress(kb) ==
    [total_stories_captured |-> 0, knowledge_base_words |-> Len(kb)]

(***************************************************************************)
(* generate_dashboard                                                      *)
(***************************************************************************)
NotFound == [success |-> FALSE, error |-> "Beta tester not found"]

Sections(beta_id, convs, kb, health_events) ==
        [success |-> TRUE,
         beta_id |-> beta_id,
         weekly_updates |-> generate_weekly_updates(convs),
         health_insights |-> generate_health_insights(convs, health_events),
         life_story |-> generate_life_story(convs),
         summary |-> generate_summary(convs),
         health_events |-> health_events,
         in_their_words |-> build_in_their_words(convs),
         biography_progress |-> analyze_biography_progress(kb),
         alerts |-> identify_alerts(convs, health_events)]

Dashboard(beta_id, convs, kb) ==
    Sections(beta_id, convs, kb, DetectHealthEvents(convs, kb))

(***************************************************************************)
(* _link_symptoms_to_causes                                                *)
(***************************************************************************)
\* _consolidate_health_events, lines 1361-1368: the title of an event.
EventTitle(keyword, body_part) ==
    IF keyword \in {"fell", "fall", "fallen", "ladder"} THEN FallTitle(body_part)
    ELSE IF body_part # None THEN <<TitleCase(body_part), TitleCase(keyword)>>
    ELSE <<TitleCase(keyword)>>

IsFallInjury(e) ==
    KwIn(<<"fall">>, LowerText(e.title)) \/ KwIn(<<"fall">>, <<e.keyword>>)

\* The first of the longest descriptions (max(all_descriptions, key=len)).
LongestDescription(group) ==
    LET ds == SelectSeq([k \in 1..Len(group) |-> group[k].description],
                        LAMBDA d : d # <<>>)
    IN  IF ds = <<>> THEN group[1].description
        ELSE ds[CHOOSE i \in 1..Len(ds) :
                  /\ \A j \in 1..Len(ds) : CharLen(ds[j]) <= CharLen(ds[i])
                  /\ \A j \in 1..(i - 1) : CharLen(ds[j]) < CharLen(ds[i])]

\* The loops of lines 1444-1458 and 1499-1510 over the events of a group.
\* (MergeInto_Primary: the dates are merged, the count is the primary's.)
MergeInto_Primary(primary, group) ==
    LET Step(acc, inj) ==
            [earliest |-> IF inj.detected_on # 0
                             /\ (acc.earliest = 0 \/ inj.detected_on < acc.earliest)
                          THEN inj.detected_on ELSE acc.earliest,
             latest |-> IF inj.last_mentioned # 0
                           /\ (acc.latest = 0 \/ inj.last_mentioned > acc.latest)
                        THEN inj.last_mentioned ELSE acc.latest]
        acc == FoldLeft(Step, [earliest |-> primary.detected_on,
                               latest |-> primary.last_mentioned], group)
    IN  [primary EXCEPT !.description = SmartTruncate(LongestDescription(group)),
                        !.detected_on = acc.earliest,
                        !.last_mentioned = acc.latest]

MergeInto(primary, group) ==
    LET Step(acc, inj) ==
            [total |-> acc.total + inj.mentions_count,
             earliest |-> IF inj.detected_on # 0
                             /\ (acc.earliest = 0 \/ inj.detected_on < acc.earliest)
                          THEN inj.detected_on ELSE acc.earliest,
             latest |-> IF inj.last_mentioned # 0
                           /\ (acc.latest = 0 \/ inj.last_mentioned > acc.latest)
                        THEN inj.last_mentioned ELSE acc.latest]
        acc == FoldLeft(Step, [total |-> 0, earliest |-> primary.detected_on,
                               latest |-> primary.last_mentioned], group)
    IN  [primary EXCEPT !.description = SmartTruncate(LongestDescription(group)),
                        !.mentions_count = acc.total,
                        !.detected_on = acc.earliest,
                        !.last_mentioned = acc.latest]

\* The body parts of the fall events: the set all_body_parts.
AllBodyParts(evs) ==
    {evs[k].body_part : k \in {j \in 1..Len(evs) :
        evs[j].type = "injury" /\ IsFallInjury(evs[j]) /\ evs[j].body_part # None}}

\* list(all_body_parts)[0]: the first element of a set of strings in
\* iteration order, which depends on the string hash seed of the process:
\* any element of the set.
FirstOfSet(parts) == parts

\* Lines 1420-1476: all fall events become one; pick is list(all_body_parts)[0].
MergeFalls(fall_injuries, pick) ==
    IF fall_injuries = <<>> THEN <<>>
    ELSE LET with_body == {k \in 1..Len(fall_injuries) :
                              fall_injuries[k].body_part # None}
             primary == IF with_body = {} THEN fall_injuries[1]
                        ELSE fall_injuries[CHOOSE k \in with_body :
                                              \A h \in with_body : k <= h]
             merged == MergeInto(primary, fall_injuries)
             body == IF with_body = {} THEN primary.body_part ELSE pick
         IN  << [merged EXCEPT !.body_part = body, !.title = FallTitle(body)] >>

BodyKey(e) == IF e.body_part # None THEN e.body_part ELSE "general"

\* Lines 1478-1521: the other injuries, one event for every body part, in
\* order of the first event of each part.
MergeByBody(non_fall) ==
    LET firsts == SelectSeq([k \in 1..Len(non_fall) |-> k],
                     LAMBDA k : \A j \in 1..(k - 1) :
                                   BodyKey(non_fall[j]) # BodyKey(non_fall[k]))
        GroupOf(k) == SelectSeq(non_fall,
                         LAMBDA e : BodyKey(e) = BodyKey(non_fall[k]))
    IN  [n \in 1..Len(firsts) |->
           IF Len(GroupOf(firsts[n])) = 1 THEN non_fall[firsts[n]]
           ELSE MergeInto(non_fall[firsts[n]], GroupOf(firsts[n]))]

\* Line 1532-1533: cause may be the cause of symptom.
\* (Eligible_AnyDate: the body parts alone decide, the dates are not read.)
Eligible_AnyDate(cause, symptom) ==
    \/ cause.body_part = symptom.body_part
    \/ cause.body_part = None
    \/ symptom.body_part = None

Eligible(cause, symptom) ==
    /\ cause.detected_on <= symptom.detected_on \/ cause.detected_on = 0
    /\ \/ cause.body_part = symptom.body_part
       \/ cause.body_part = None
       \/ symptom.body_part = None

\* The cause the loop of lines 1528-1541 stops at: the first eligible one.
\* (ChooseCause_Last: the loop without its break, the last eligible one.)
ChooseCause_Last(causes, symptom) ==
    LET hits == {k \in 1..Len(causes) : Eligible(causes[k], symptom)}
    IN  IF hits = {} THEN 0 ELSE CHOOSE k \in hits : \A h \in hits : k >= h

ChooseCause(causes, symptom) ==
    LET hits == {k \in 1..Len(causes) : Eligible(causes[k], symptom)}
    IN  IF hits = {} THEN 0 ELSE CHOOSE k \in hits : \A h \in hits : k <= h

\* Lines 1523-1541: every symptom is linked to its cause, on both sides.
\* (LinkStep_SymptomSide: the link is written on the symptom alone.)
LinkStep_SymptomSide(acc, symptom) ==
    LET c == ChooseCause(acc.causes, symptom)
    IN  IF c = 0
        THEN [acc EXCEPT !.symptoms = Append(@, symptom)]
        ELSE [causes |-> acc.causes,
              symptoms |-> Append(acc.symptoms,
                             [symptom EXCEPT !.linked_to = acc.causes[c].event_id,
                                             !.linked_to_title = acc.causes[c].title])]

LinkStep(acc, symptom) ==
    LET c == ChooseCause(acc.causes, symptom)
    IN  IF c = 0
        THEN [acc EXCEPT !.symptoms = Append(@, symptom)]
        ELSE [causes |-> [acc.causes EXCEPT ![c].related_symptoms =
                             Append(@, [symptom |-> symptom.title,
                                        status |-> "ongoing",
                                        event_id |-> symptom.event_id])],
              symptoms |-> Append(acc.symptoms,
                             [symptom EXCEPT !.linked_to = acc.causes[c].event_id,
                                             !.linked_to_title = acc.causes[c].title])]

SeverityRank(severity) ==
    CASE severity = "high" -> 0 [] severity = "moderate" -> 1 [] OTHER -> 2

\* list.sort(key=...): ascending, equal keys keep their order.  The key of
\* an event is (severity rank, detected_on or 'zzz').
EventBefore(a, b) ==
    \/ SeverityRank(a.severity) < SeverityRank(b.severity)
    \/ /\ SeverityRank(a.severity) = SeverityRank(b.severity)
       /\ a.detected_on # 0
       /\ b.detected_on = 0 \/ a.detected_on < b.detected_on

RECURSIVE InsertEvent(_, _)
InsertEvent(x, sorted) ==
    IF sorted = <<>> THEN <<x>>
    ELSE IF EventBefore(x, Head(sorted)) THEN <<x>> \o sorted
    ELSE <<Head(sorted)>> \o InsertEvent(x, Tail(sorted))

SortEvents(evs) == FoldLeft(LAMBDA sorted, x : InsertEvent(x, sorted), <<>>, evs)

link_symptoms_to_causes(evs, pick) ==
    LET injuries == SelectSeq(evs, LAMBDA e : e.type = "injury")
        symptoms == SelectSeq(evs, LAMBDA e : e.type = "symptom")
        other == SelectSeq(evs, LAMBDA e : e.type \notin {"injury", "symptom"})
        fall_injuries == SelectSeq(injuries, IsFallInjury)
        non_fall_injuries == SelectSeq(injuries,
                                LAMBDA i : \A k \in 1..Len(fall_injuries) :
                                              fall_injuries[k] # i)
        merged_injuries == MergeFalls(fall_injuries, pick)
                              \o MergeByBody(non_fall_injuries)
        result == FoldLeft(LinkStep, [causes |-> merged_injuries, symptoms |-> <<>>],
                           symptoms)
    IN  SortEvents(result.causes \o result.symptoms \o other)

(***************************************************************************)
(* Inputs: the conversation records and documents the model stores         *)
(***************************************************************************)
Testers == {"BT001"}

UnknownTester == "BT999"

\* A record with every analysis field absent: each reader's default.
EmptyConv ==
    [timestamp |-> 0, summary |-> <<>>, red_flags |-> <<>>, transcript |-> <<>>,
     mood |-> "neutral", topics |-> <<>>, quotes |-> <<>>]

Timestamps == {0, 2, 9}

Summaries == { <<>>, <<"fell", "off", "the", "ladder">>, <<"knee", "is", "sore">> }

RedFlagLists == { <<>>, << <<"fall", "hurt", "back">> >> }

Transcripts ==
    { <<>>,
      << [tag |-> "Aila:", words |-> <<"feeling", "fine">>],
         [tag |-> "User:", words |-> <<"i", "fell", "on", "my", "hip">>],
         [tag |-> "", words |-> <<"it", "hurts">>] >> }

\* Records that differ in their health fields.
HealthConvs ==
    { [EmptyConv EXCEPT !.timestamp = ts, !.summary = s, !.red_flags = f,
                        !.transcript = t] :
        ts \in Timestamps, s \in Summaries, f \in RedFlagLists, t \in Transcripts }

Moods == {"positive", "neutral"}

\* The topics and the memorable quotes of a conversation, and its moods.
QuoteCases ==
    { [topics |-> << <<"introduction">>, <<"poker", "night">> >>,
       quotes |-> << <<"it", "was", "a", "long", "day", "today">> >>,
       moods |-> Moods],
      [topics |-> << <<"family", "visit">> >>,
       quotes |-> << <<"are", "you", "real", "or", "not">>,
                     <<"it", "was", "a", "long", "day", "today">> >>,
       moods |-> Moods],
      [topics |-> <<>>,
       quotes |-> << <<"poker", "night", "fun">>,
                     <<"poker", "night", "was", "so", "much", "fun">> >>,
       moods |-> {"neutral"}],
      [topics |-> << <<"family", "visit">> >>,
       quotes |-> << <<"the", "pain", "in", "my", "shoulder", "has", "been", "tough">> >>,
       moods |-> {"positive"}],
      [topics |-> <<>>,
       quotes |-> << <<"it", "has", "been", "a", "tough", "week">>,
                     <<"it", "was", "a", "long", "day", "today">> >>,
       moods |-> {"neutral"}],
      [topics |-> << <<"introduction">>, <<"poker", "night">> >>,
       quotes |-> << <<"it", "has", "been", "a", "tough", "week">> >>,
       moods |-> {"positive"}] }

\* Records that differ in their conversation fields.
QuoteConvs ==
    UNION { { [EmptyConv EXCEPT !.timestamp = 9, !.mood = m, !.topics = c.topics,
                                !.quotes = c.quotes] : m \in c.moods } :
            c \in QuoteCases }

KnowledgeBases == { <<>>, <<"fallen", "on", "hip">> }

NoReport == [success |-> FALSE, error |-> "no request"]

\* A file of conversations/ that json.load cannot read.
Malformed == [error |-> "JSONDecodeError"]

\* try: json.load(f) succeeds.
Readable_Always(file) == TRUE

Readable(file) == "error" \notin DOMAIN file

\* _load_conversations: the records of the readable files, in the order of
\* sorted(glob("*.json")); a file that cannot be loaded is skipped.
RECURSIVE SortedNames(_)
SortedNames(names) ==
    IF names = {} THEN <<>>
    ELSE LET first == CHOOSE n \in names : \A m \in names : n <= m
         IN  <<first>> \o SortedNames(names \ {first})

LoadConversations(files) ==
    LET names == SortedNames(DOMAIN files)
    IN  SelectSeq([i \in DOMAIN names |-> files[names[i]]], Readable)

\* dict.get(key, default)
Field(conv, key, default) == IF key \in DOMAIN conv THEN conv[key] ELSE default

\* What the consumers of a record read from it: each reads a path with
\* conv.get(..., default), and a path below an absent dictionary is absent.
ReadConversation_Positive(conv) ==
    [timestamp  |-> Field(conv, "timestamp", 0),
     transcript |-> Field(conv, "transcript", <<>>),
     summary    |-> Field(conv, "summary", <<>>),
     red_flags  |-> Field(conv, "red_flags", <<>>),
     mood       |-> Field(conv, "mood", "positive"),
     topics     |-> Field(conv, "topics", <<>>),
     quotes     |-> Field(conv, "quotes", <<>>)]

ReadConversation(conv) ==
    [timestamp  |-> Field(conv, "timestamp", 0),
     transcript |-> Field(conv, "transcript", <<>>),
     summary    |-> Field(conv, "summary", <<>>),
     red_flags  |-> Field(conv, "red_flags", <<>>),
     mood       |-> Field(conv, "mood", "neutral"),
     topics     |-> Field(conv, "topics", <<>>),
     quotes     |-> Field(conv, "quotes", <<>>)]

ReadConversations(convs) == [i \in DOMAIN convs |-> ReadConversation(convs[i])]

\* A record with every field present, and the keys a file can lack: a
\* top-level key, or the keys below an absent analysis dictionary.
CompleteConv ==
    [timestamp  |-> 9,
     transcript |-> << [tag |-> "User:", words |-> <<"i", "fell", "on", "my", "hip">>] >>,
     summary    |-> <<"fell", "off", "the", "ladder">>,
     red_flags  |-> << <<"fall", "hurt", "back">> >>,
     mood       |-> "positive",
     topics     |-> << <<"poker", "night">> >>,
     quotes     |-> << <<"it", "was", "a", "long", "day", "today">> >>]

AbsentKeys ==
    { {},
      {"timestamp"},
      {"transcript"},
      {"summary", "red_flags"},
      {"quotes"},
      {"mood"},
      {"mood", "topics"},
      {"summary", "red_flags", "quotes", "mood", "topics"},
      DOMAIN CompleteConv }

Without(conv, keys) == [key \in DOMAIN conv \ keys |-> conv[key]]

\* The files of a conversations/ collection: records that lack keys, and
\* a file that is not JSON.
ConvFiles == { Without(CompleteConv, keys) : keys \in AbsentKeys } \cup {Malformed}

(***************************************************************************)
(* State machine                                                           *)
(* registry       the testers of registry.json                             *)
(* archive        the records of BT001/conversations, in file-name order   *)
(* knowledge_base the document BT001/knowledge_base.md                     *)
(* conversations  the records the request in progress has loaded           *)
(* report         the value the last call of generate_dashboard returned;  *)
(*                it is gone once the next operation starts                *)
(* events, linked the argument and the result of _link_symptoms_to_causes  *)
(* event_mentions the argument of _consolidate_health_events               *)
(* family_updates the files of BT001/family_updates, in file-name order   *)
(* agent_knowledge_base  the document                                      *)
(*                BT001/conversations/{agent_id}_knowledge_base.txt        *)
(* next_id        registry['next_id']                                      *)
(* requests       the requests the server's threads are handling: the      *)
(*                position of each in its handler and its local values     *)
(***************************************************************************)
MaxRequests == 3

Threads == 1..MaxRequests

\* A thread with no request: its locals are unset.
Idle ==
    [pc |-> "idle", beta_id |-> "", next_id |-> 0, testers |-> 0,
     existing_kb |-> <<>>]

\* f"BT{next_id:03d}"
BetaId(n) == <<"BT001", "BT002", "BT003", "BT004", "BT005">>[n]

\* No file {agent_id}_knowledge_base.txt yet.
NoKnowledgeBase ==
    [exists |-> FALSE, total_conversations |-> 0, summaries |-> <<>>,
     transcripts |-> <<>>]

Init ==
    /\ registry = {}
    /\ archive = <<>>
    /\ knowledge_base = <<>>
    /\ conversations = <<>>
    /\ report = NoReport
    /\ events = <<>>
    /\ linked = <<>>
    /\ family_updates = <<>>
    /\ agent_knowledge_base = NoKnowledgeBase
    /\ event_mentions = <<>>
    /\ next_id = 1
    /\ requests = [t \in Threads |-> Idle]

\* BetaTesterManager.register_beta_tester: the record and its folders.
RegisterBetaTester ==
    /\ BetaId(next_id) \in Testers
    /\ registry' = registry \cup {BetaId(next_id)}
    /\ next_id' = next_id + 1
    /\ conversations' = <<>>
    /\ report' = NoReport
    /\ UNCHANGED <<requests, archive, knowledge_base, events, linked, family_updates,
                 agent_knowledge_base, event_mentions>>

\* One more JSON record in the tester's conversations/ collection.
StoreConversation(inputs) ==
    /\ "BT001" \in registry
    /\ Len(archive) < MaxConvs
    /\ \E conv \in inputs : archive' = Append(archive, conv)
    /\ conversations' = <<>>
    /\ report' = NoReport
    /\ UNCHANGED <<next_id, requests, registry, knowledge_base, events, linked, family_updates,
                 agent_knowledge_base, event_mentions>>

\* The knowledge-base document is written.
WriteKnowledgeBase ==
    /\ "BT001" \in registry
    /\ \E kb \in KnowledgeBases \ {knowledge_base} : knowledge_base' = kb
    /\ conversations' = <<>>
    /\ report' = NoReport
    /\ UNCHANGED <<next_id, requests, registry, archive, events, linked, family_updates,
                 agent_knowledge_base, event_mentions>>

\* registry['testers'].get(beta_id)
FindTester_Any(testers, beta_id) == beta_id

FindTester(testers, beta_id) == IF beta_id \in testers THEN beta_id ELSE None

\* What generate_dashboard(beta_id) loads and returns.
Respond(beta_id) ==
    IF FindTester(registry, beta_id) = None
    THEN /\ report' = NotFound
         /\ conversations' = <<>>
    ELSE /\ conversations' = LoadConversations(archive)
         /\ report' = Dashboard(beta_id,
                                ReadConversations(LoadConversations(archive)),
                                knowledge_base)

\* FamilyDashboardGenerator.generate_dashboard(beta_id): the files are
\* opened for reading only.
GenerateDashboard_Consuming ==
    /\ \E beta_id \in Testers \cup {UnknownTester} : Respond(beta_id)
    /\ archive' = <<>>
    /\ UNCHANGED <<next_id, requests, registry, knowledge_base, events, linked, family_updates,
                 agent_knowledge_base, event_mentions>>

GenerateDashboard ==
    /\ \E beta_id \in Testers \cup {UnknownTester} : Respond(beta_id)
    /\ UNCHANGED <<next_id, requests, registry, archive, knowledge_base, events, linked,
                 family_updates, agent_knowledge_base, event_mentions>>

Next ==
    \/ RegisterBetaTester
    \/ StoreConversation(HealthConvs)
    \/ WriteKnowledgeBase
    \/ GenerateDashboard

Spec == Init /\ [][Next]_vars

NextQuotes ==
    \/ RegisterBetaTester
    \/ StoreConversation(QuoteConvs)
    \/ GenerateDashboard

SpecQuotes == Init /\ [][NextQuotes]_vars

\* elevenlabs_conversation_ended for the agent linked to the tester, every
\* call of it succeeding: the conversation count of the registry entry, the
\* knowledge-base text file next to the conversation records and one more
\* family update are written.
MaxUpdates == 2

\* The document the webhook works on: the file, or the initial document
\* (webhook_server.py 605-628) when there is no file yet.
ExistingKb(file) == [file EXCEPT !.exists = TRUE]

\* ConversationAnalyzer._get_conversation_count: the number after
\* 'Total conversations:'.
get_conversation_count(kb) == kb.total_conversations

\* ConversationAnalyzer.update_knowledge_base: 'Total conversations' is
\* rewritten, and a '### Session n' entry is added to the summaries and
\* another to the full transcripts.
update_knowledge_base(existing_kb, conversation_id) ==
    [exists |-> TRUE,
     total_conversations |-> get_conversation_count(existing_kb) + 1,
     summaries |-> Append(existing_kb.summaries,
                     [session |-> get_conversation_count(existing_kb) + 1,
                      conversation_id |-> conversation_id]),
     transcripts |-> Append(existing_kb.transcripts,
                     [session |-> get_conversation_count(existing_kb) + 1,
                      conversation_id |-> conversation_id])]

\* knowledge_base.count('### Session')
CountSessionHeadings(kb) == Len(kb.summaries) + Len(kb.transcripts)

\* analysis['family_dashboard']['concerns'] of a conversation.
ConcernLists == { <<>>, << <<"knee", "pain">> >> }

\* ConversationAnalyzer.generate_family_update: the date is written with
\* strftime("%B %d, %Y").
generate_family_update(concerns) ==
    [date |-> [format |-> "%B %d, %Y", day |-> Now],
     mood |-> "neutral",
     concerns |-> concerns]

\* datetime.fromisoformat(text): a day for text in ISO format, ValueError
\* for any other text.
FromIsoFormat(date) ==
    IF date.format = "%Y-%m-%d"
    THEN [raised |-> None, day |-> date.day]
    ELSE [raised |-> "ValueError", day |-> 0]

\* HealthTrendAnalyzer._analyze_overview, line 79.
analyze_overview(updates) ==
    IF \E k \in 1..Len(updates) : FromIsoFormat(updates[k].date).raised # None
    THEN [raised |-> "ValueError", total_conversations |-> 0]
    ELSE [raised |-> None, total_conversations |-> Len(updates)]

\* HealthTrendAnalyzer._generate_recommendations, lines 252-257:
\* set(all_concerns)[:3] is evaluated when a recent update has a concern.
generate_recommendations(updates) ==
    IF \E k \in Max(1, Len(updates) - 4)..Len(updates) : updates[k].concerns # <<>>
    THEN [raised |-> "TypeError"]
    ELSE [raised |-> None]

EmptyAnalysis ==
    [raised |-> None, overview |-> [total_conversations |-> 0]]

\* HealthTrendAnalyzer.analyze_health_trends: the sections are computed in
\* the order of the dictionary; an exception of one leaves the call.
analyze_health_trends(updates) ==
    IF updates = <<>> THEN EmptyAnalysis
    ELSE IF analyze_overview(updates).raised # None
    THEN [raised |-> analyze_overview(updates).raised,
          overview |-> [total_conversations |-> 0]]
    ELSE IF generate_recommendations(updates).raised # None
    THEN [raised |-> generate_recommendations(updates).raised,
          overview |-> [total_conversations |-> 0]]
    ELSE [raised |-> None,
          overview |-> [total_conversations |->
                           analyze_overview(updates).total_conversations]]

\* The handler of POST /webhook/elevenlabs/conversation-ended, run without
\* another request in between.
ConversationEnded ==
    /\ "BT001" \in registry
    /\ Len(family_updates) < MaxUpdates
    /\ agent_knowledge_base' =
          update_knowledge_base(ExistingKb(agent_knowledge_base),
                                Len(family_updates) + 1)
    /\ \E concerns \in ConcernLists :
          family_updates' = Append(family_updates, generate_family_update(concerns))
    /\ conversations' = <<>>
    /\ report' = NoReport
    /\ UNCHANGED <<next_id, requests, registry, archive, knowledge_base, events, linked,
                 event_mentions>>

\* The handler of GET /api/family-dashboard/<beta_id>: the except clause
\* answers {'error': str(e)} with status 500.
GetFamilyDashboard ==
    /\ \E beta_id \in Testers \cup {UnknownTester} :
          report' =
             IF FindTester(registry, beta_id) = None THEN NotFound
             ELSE IF analyze_health_trends(family_updates).raised # None
             THEN [success |-> FALSE,
                   error |-> analyze_health_trends(family_updates).raised]
             ELSE [success |-> TRUE,
                   beta_id |-> beta_id,
                   health_trends |-> analyze_health_trends(family_updates)]
    /\ conversations' = <<>>
    /\ UNCHANGED <<next_id, requests, registry, archive, knowledge_base, events, linked,
                 family_updates, agent_knowledge_base, event_mentions>>

\* The handler of GET /api/knowledge-base/<agent_id>, for the agent of
\* tester BT001.
GetKnowledgeBase ==
    /\ "BT001" \in registry
    /\ report' =
          [success |-> TRUE,
           knowledge_base |-> ExistingKb(agent_knowledge_base),
           conversation_count |->
              IF agent_knowledge_base.exists
              THEN CountSessionHeadings(agent_knowledge_base) ELSE 0]
    /\ conversations' = <<>>
    /\ UNCHANGED <<next_id, requests, registry, archive, knowledge_base, events, linked,
                 family_updates, agent_knowledge_base, event_mentions>>

NextWebhook ==
    \/ RegisterBetaTester
    \/ StoreConversation(ConvFiles)
    \/ ConversationEnded
    \/ GenerateDashboard
    \/ GetFamilyDashboard
    \/ GetKnowledgeBase

SpecWebhook == Init /\ [][NextWebhook]_vars

(***************************************************************************)
(* Requests handled at the same time.  The server runs one thread per      *)
(* request (webhook_server.py 1210) on one BetaTesterManager (line 37) and *)
(* one set of files, without a lock: a thread may be suspended between any *)
(* two reads or writes of the shared registry or of a file.                *)
(***************************************************************************)
\* register_beta_tester, line 59: beta_id = f"BT{self.registry['next_id']:03d}"
FormatBetaId(t) ==
    /\ requests[t].pc = "idle"
    /\ requests' = [requests EXCEPT ![t] = [@ EXCEPT !.pc = "load_next_id",
                                                     !.beta_id = BetaId(next_id)]]
    /\ UNCHANGED <<registry, archive, knowledge_base, conversations, report,
                   events, linked, family_updates, agent_knowledge_base,
                   event_mentions, next_id>>

\* Line 60, self.registry['next_id'] += 1: the value is read ...
LoadNextId(t) ==
    /\ requests[t].pc = "load_next_id"
    /\ requests' = [requests EXCEPT ![t] = [@ EXCEPT !.pc = "store_next_id",
                                                     !.next_id = next_id]]
    /\ UNCHANGED <<registry, archive, knowledge_base, conversations, report,
                   events, linked, family_updates, agent_knowledge_base,
                   event_mentions, next_id>>

\* ... and the value plus one is stored.
StoreNextId(t) ==
    /\ requests[t].pc = "store_next_id"
    /\ next_id' = requests[t].next_id + 1
    /\ requests' = [requests EXCEPT ![t] = [@ EXCEPT !.pc = "store_record"]]
    /\ UNCHANGED <<registry, archive, knowledge_base, conversations, report,
                   events, linked, family_updates, agent_knowledge_base,
                   event_mentions>>

\* Lines 78-79: self.registry['testers'][beta_id] = tester_record, and
\* _save_registry starts to write the registry it finds.
StoreTesterRecord(t) ==
    /\ requests[t].pc = "store_record"
    /\ registry' = registry \cup {requests[t].beta_id}
    /\ requests' = [requests EXCEPT ![t] =
                      [@ EXCEPT !.pc = "save_registry",
                                !.testers =
                                   Cardinality(registry \cup {requests[t].beta_id})]]
    /\ UNCHANGED <<archive, knowledge_base, conversations, report, events,
                   linked, family_updates, agent_knowledge_base,
                   event_mentions, next_id>>

\* _save_registry, lines 33-36, and the answer: json.dump walks the
\* dictionary of testers and raises RuntimeError (dictionary changed size
\* during iteration) when a record was added meanwhile; the endpoint then
\* answers with an error (webhook_server.py 315-319).
SaveRegistry(t) ==
    /\ requests[t].pc = "save_registry"
    /\ requests' = [requests EXCEPT ![t] =
                      [@ EXCEPT !.pc =
                                   IF Cardinality(registry) = requests[t].testers
                                   THEN "registered" ELSE "failed"]]
    /\ UNCHANGED <<registry, archive, knowledge_base, conversations, report,
                   events, linked, family_updates, agent_knowledge_base,
                   event_mentions, next_id>>

NextRegistering ==
    \E t \in Threads :
        \/ FormatBetaId(t)
        \/ LoadNextId(t)
        \/ StoreNextId(t)
        \/ StoreTesterRecord(t)
        \/ SaveRegistry(t)

SpecRegistering == Init /\ [][NextRegistering]_vars

\* Tester BT001 is registered and its agent linked.
InitWebhooks ==
    /\ registry = {"BT001"}
    /\ archive = <<>>
    /\ knowledge_base = <<>>
    /\ conversations = <<>>
    /\ report = NoReport
    /\ events = <<>>
    /\ linked = <<>>
    /\ family_updates = <<>>
    /\ agent_knowledge_base = NoKnowledgeBase
    /\ event_mentions = <<>>
    /\ next_id = 2
    /\ requests = [t \in Threads |-> Idle]

\* elevenlabs_conversation_ended, lines 590-628: the knowledge-base file
\* is read, or the initial document taken; the analysis of the transcript
\* (a call of the language model) follows.
LoadKnowledgeBase(t) ==
    /\ requests[t].pc = "idle"
    /\ requests' = [requests EXCEPT ![t] =
                      [@ EXCEPT !.pc = "analyzing",
                                !.existing_kb = ExistingKb(agent_knowledge_base)]]
    /\ UNCHANGED <<registry, archive, knowledge_base, conversations, report,
                   events, linked, family_updates, agent_knowledge_base,
                   event_mentions, next_id>>

\* Lines 637-703: the document made of the one read is written, the
\* family update is saved and the webhook answers with success.
SaveKnowledgeBase(t) ==
    /\ requests[t].pc = "analyzing"
    /\ agent_knowledge_base' = update_knowledge_base(requests[t].existing_kb, t)
    /\ \E concerns \in ConcernLists :
          family_updates' = Append(family_updates, generate_family_update(concerns))
    /\ requests' = [requests EXCEPT ![t] = [@ EXCEPT !.pc = "processed"]]
    /\ UNCHANGED <<registry, archive, knowledge_base, conversations, report,
                   events, linked, event_mentions, next_id>>

NextWebhooks ==
    \E t \in Threads :
        \/ LoadKnowledgeBase(t)
        \/ SaveKnowledgeBase(t)

SpecWebhooks == InitWebhooks /\ [][NextWebhooks]_vars

\* Transcripts whose lines carry the speaker tags of the webhook ("Aila:")
\* and of the data model ("Agent:", "Assistant:").
SpeakerTranscripts ==
    { << [tag |-> "User:", words |-> <<"feeling", "fine">>],
         [tag |-> agent, words |-> <<"did", "you", "fall">>] >> :
        agent \in {"Aila:", "Assistant:", "Agent:"} }
    \cup
    { << [tag |-> "Agent:", words |-> <<"did", "you", "fall">>],
         [tag |-> "User:", words |-> <<"feeling", "fine">>] >>,
      << [tag |-> "Aila:", words |-> <<"feeling", "fine">>],
         [tag |-> "User:", words |-> <<"i", "fell", "on", "my", "hip">>] >> }

SpeakerConvs ==
    { [EmptyConv EXCEPT !.timestamp = 9, !.summary = s, !.transcript = t] :
        s \in {<<>>, <<"knee", "is", "sore">>}, t \in SpeakerTranscripts }

NextSpeakers ==
    \/ RegisterBetaTester
    \/ StoreConversation(SpeakerConvs)
    \/ WriteKnowledgeBase
    \/ GenerateDashboard

SpecSpeakers == Init /\ [][NextSpeakers]_vars

NextFiles ==
    \/ RegisterBetaTester
    \/ StoreConversation(ConvFiles)
    \/ WriteKnowledgeBase
    \/ GenerateDashboard

SpecFiles == Init /\ [][NextFiles]_vars

\* Records whose red flags name a complaint other than the fall: the
\* entries of analysis.health.red_flags are free text.
AlertFlagLists ==
    { <<>>, << <<"knee", "is", "sore">> >>, << <<"shoulder", "pain">> >> }

AlertConvs ==
    { [EmptyConv EXCEPT !.timestamp = 9, !.summary = s, !.red_flags = f,
                        !.transcript = t] :
        s \in {<<>>, <<"fell", "off", "the", "ladder">>},
        f \in AlertFlagLists,
        t \in {<<>>, << [tag |-> "User:",
                         words |-> <<"i", "fell", "on", "my", "hip">>] >>} }

NextAlerts ==
    \/ RegisterBetaTester
    \/ StoreConversation(AlertConvs)
    \/ GenerateDashboard

SpecAlerts == Init /\ [][NextAlerts]_vars

(***************************************************************************)
(* _generate_weekly_updates as a function of the loaded conversations      *)
(***************************************************************************)
MaxWeekConvs == 8

\* No timestamp, eight days ago, exactly seven days ago, yesterday.
WeekTimestamps == {0, 2, 3, 9}

WeekInputs == { [EmptyConv EXCEPT !.timestamp = ts] : ts \in WeekTimestamps }

InitWeekly ==
    /\ registry = {}
    /\ archive = <<>>
    /\ knowledge_base = <<>>
    /\ \E n \in 0..MaxWeekConvs : conversations \in [1..n -> WeekInputs]
    /\ report = NoReport
    /\ events = <<>>
    /\ linked = <<>>
    /\ family_updates = <<>>
    /\ agent_knowledge_base = NoKnowledgeBase
    /\ event_mentions = <<>>
    /\ next_id = 1
    /\ requests = [t \in Threads |-> Idle]

\* One call of _generate_weekly_updates(conversations, elder_name).
GenerateWeeklyUpdates ==
    /\ report = NoReport
    /\ report' = [success |-> TRUE,
                  weekly_updates |-> generate_weekly_updates(conversations)]
    /\ UNCHANGED <<next_id, requests, registry, archive, knowledge_base, conversations, events,
                 linked, family_updates, agent_knowledge_base, event_mentions>>

NextWeekly == GenerateWeeklyUpdates

SpecWeekly == InitWeekly /\ [][NextWeekly]_vars

(***************************************************************************)
(* _categorize_quote as a function of a quote and the topics of its        *)
(* conversation, and the section _build_in_their_words makes of them       *)
(***************************************************************************)
\* Quotes with a specific phrase and a broad keyword, two specific
\* phrases, broad keywords only (one category, two, a blocked one) and none.
CategorizeQuotes ==
    { <<"family", "poker", "night", "was", "so", "much", "fun">>,
      <<"my", "back", "pain", "is", "so", "bad">>,
      <<"my", "daughter", "was", "fun", "on", "poker", "night">>,
      <<"the", "pain", "in", "my", "shoulder", "has", "been", "tough">>,
      <<"my", "family", "has", "been", "in", "pain">>,
      <<"the", "tree", "was", "so", "much", "fun">>,
      <<"it", "is", "by", "nature", "a", "tree">>,
      <<"it", "was", "a", "long", "day", "today">> }

\* Topic lists: none, meta topics only, a meta topic first, a topic of a
\* broad category, a topic named by its first word, topics without a theme.
CategorizeTopics ==
    { <<>>,
      << <<"introduction">> >>,
      << <<"introduction">>, <<"poker", "night">> >>,
      << <<"family", "visit">> >>,
      << <<"long", "day">> >>,
      << <<"in", "it">> >>,
      << <<"in", "it">>, <<"family", "visit">> >> }

InitCategorize ==
    /\ registry = {}
    /\ archive = <<>>
    /\ knowledge_base = <<>>
    /\ \E quote \in CategorizeQuotes, topics \in CategorizeTopics :
          conversations = << [EmptyConv EXCEPT !.timestamp = 9,
                                               !.quotes = <<quote>>,
                                               !.topics = topics] >>
    /\ report = NoReport
    /\ events = <<>>
    /\ linked = <<>>
    /\ family_updates = <<>>
    /\ agent_knowledge_base = NoKnowledgeBase
    /\ event_mentions = <<>>
    /\ next_id = 1
    /\ requests = [t \in Threads |-> Idle]

\* One call of _categorize_quote(quote, topics) and one of
\* _build_in_their_words on the conversation that holds the quote.
CategorizeQuote ==
    /\ report = NoReport
    /\ report' = [success |-> TRUE,
                  theme_id |-> categorize_quote(conversations[1].quotes[1],
                                                conversations[1].topics),
                  in_their_words |-> build_in_their_words(conversations)]
    /\ UNCHANGED <<next_id, requests, registry, archive, knowledge_base, conversations, events,
                 linked, family_updates, agent_knowledge_base, event_mentions>>

NextCategorize == CategorizeQuote

SpecCategorize == InitCategorize /\ [][NextCategorize]_vars

(***************************************************************************)
(* _generate_summary as a function of the loaded conversations             *)
(***************************************************************************)
MaxSummaryConvs == 3

\* No timestamp, and conversations 8, 7, 6 and 1 days ago and today.
SummaryTimestamps == {0, Now - 8, Now - 7, Now - 6, Now - 1, Now}

InitSummary ==
    /\ registry = {}
    /\ archive = <<>>
    /\ knowledge_base = <<>>
    /\ \E n \in 0..MaxSummaryConvs :
          conversations \in
             [1..n -> { [EmptyConv EXCEPT !.timestamp = ts] :
                           ts \in SummaryTimestamps }]
    /\ report = NoReport
    /\ events = <<>>
    /\ linked = <<>>
    /\ family_updates = <<>>
    /\ agent_knowledge_base = NoKnowledgeBase
    /\ event_mentions = <<>>
    /\ next_id = 1
    /\ requests = [t \in Threads |-> Idle]

\* One call of _generate_summary(conversations, tester, health_events).
GenerateSummary ==
    /\ report = NoReport
    /\ report' = [success |-> TRUE, summary |-> generate_summary(conversations)]
    /\ UNCHANGED <<registry, archive, knowledge_base, conversations, events,
                   linked, family_updates, agent_knowledge_base,
                   event_mentions, next_id, requests>>

NextSummary == GenerateSummary

SpecSummary == InitSummary /\ [][NextSummary]_vars

(***************************************************************************)
(* _generate_life_story as a function of the loaded conversations          *)
(***************************************************************************)
MaxArchive == 36

\* n conversations without quotes.
Quiet(n) == [k \in 1..n |-> [EmptyConv EXCEPT !.timestamp = 2]]

InitLifeStory ==
    /\ registry = {}
    /\ archive = <<>>
    /\ knowledge_base = <<>>
    /\ \E n \in 0..MaxArchive :
          \E told \in {<<>>} \cup { <<c>> : c \in QuoteConvs } :
             conversations = Quiet(n) \o told
    /\ report = NoReport
    /\ events = <<>>
    /\ linked = <<>>
    /\ family_updates = <<>>
    /\ agent_knowledge_base = NoKnowledgeBase
    /\ event_mentions = <<>>
    /\ next_id = 1
    /\ requests = [t \in Threads |-> Idle]

\* One call of _generate_life_story(conversations, knowledge_base, name).
GenerateLifeStory ==
    /\ report = NoReport
    /\ report' = [success |-> TRUE,
                  life_story |->
                     [progress |-> life_story_progress(conversations),
                      themes |-> generate_life_story(conversations).themes]]
    /\ UNCHANGED <<registry, archive, knowledge_base, conversations, events,
                   linked, family_updates, agent_knowledge_base,
                   event_mentions, next_id, requests>>

NextLifeStory == GenerateLifeStory

SpecLifeStory == InitLifeStory /\ [][NextLifeStory]_vars

(***************************************************************************)
(* _generate_health_insights_v2 as a function of the loaded conversations  *)
(***************************************************************************)
MaxTimelineConvs == 2

\* No timestamp, 15 days ago, and the 30th and 31st of October and the 1st
\* and 3rd of November.
TimelineTimestamps == {0, Now - 15, Now - 4, Now - 3, Now - 2, Now}

TimelineSummaries ==
    { <<>>, <<"knee", "is", "sore">>, <<"pain", "in", "my", "knee">>,
      <<"feeling", "better">> }

TimelineConvs ==
    { [EmptyConv EXCEPT !.timestamp = ts, !.mood = m, !.red_flags = f,
                        !.summary = sm] :
        ts \in TimelineTimestamps, m \in {"positive", "neutral", "negative"},
        f \in RedFlagLists, sm \in TimelineSummaries }

InitTimeline ==
    /\ registry = {}
    /\ archive = <<>>
    /\ knowledge_base = <<>>
    /\ \E n \in 0..MaxTimelineConvs : conversations \in [1..n -> TimelineConvs]
    /\ report = NoReport
    /\ events = <<>>
    /\ linked = <<>>
    /\ family_updates = <<>>
    /\ agent_knowledge_base = NoKnowledgeBase
    /\ event_mentions = <<>>
    /\ next_id = 1
    /\ requests = [t \in Threads |-> Idle]

\* One call of _generate_health_insights_v2(conversations, health_events).
GenerateHealthInsights ==
    /\ report = NoReport
    /\ report' = [success |-> TRUE,
                  health_insights |->
                     [wellbeing_timeline |-> wellbeing_timeline(conversations),
                      alert |-> generate_health_insights(conversations, events).alert]]
    /\ UNCHANGED <<registry, archive, knowledge_base, conversations, events,
                   linked, family_updates, agent_knowledge_base,
                   event_mentions, next_id, requests>>

NextTimeline == GenerateHealthInsights

SpecTimeline == InitTimeline /\ [][NextTimeline]_vars

(***************************************************************************)
(* _link_symptoms_to_causes as a function of its argument                  *)
(* The function reads the injuries and the symptoms of its argument as two *)
(* separate lists, each in the order of the argument, so the argument is   *)
(* drawn as a list of injuries followed by a list of symptoms.  Events are *)
(* as _consolidate_health_events builds them; event_id is the position.    *)
(***************************************************************************)
MaxEvents == 3

BodyInputs == {None, "back", "knee"}

\* Dates of events: none, an earlier day and a later day.
Dates == {0, 1, 2}

NewEvent(type, keyword, body_part, date) ==
    [event_id |-> 0,
     type |-> type,
     severity |-> IF type = "injury" THEN "high" ELSE "low",
     title |-> EventTitle(keyword, body_part),
     description |-> SmartTruncate(<<keyword>>),
     detected_on |-> date,
     last_mentioned |-> date,
     body_part |-> body_part,
     keyword |-> keyword,
     related_symptoms |-> <<>>,
     mentions_count |-> 1,
     linked_to |-> 0,
     linked_to_title |-> <<>>]

\* The injury events of the argument; an event of date d stands for d + 1
\* mentions.
InjuryInputs ==
    { [NewEvent("injury", kw, b, d) EXCEPT !.mentions_count = d + 1] :
        kw \in {"fall", "hurt"}, b \in BodyInputs, d \in Dates }

SymptomInputs ==
    { NewEvent("symptom", "pain", b, d) : b \in {None, "knee"}, d \in Dates }

Numbered(evs) == [k \in 1..Len(evs) |-> [evs[k] EXCEPT !.event_id = k]]

\* The lists of i injuries followed by j symptoms.
EventListsOf(i, j) ==
    { Numbered(inj \o sym) : inj \in [1..i -> InjuryInputs],
                             sym \in [1..j -> SymptomInputs] }

InitLink ==
    /\ registry = {}
    /\ archive = <<>>
    /\ knowledge_base = <<>>
    /\ conversations = <<>>
    /\ report = NoReport
    /\ \E i, j \in 0..MaxEvents :
          i + j <= MaxEvents /\ events \in EventListsOf(i, j)
    /\ linked = <<>>
    /\ family_updates = <<>>
    /\ agent_knowledge_base = NoKnowledgeBase
    /\ event_mentions = <<>>
    /\ next_id = 1
    /\ requests = [t \in Threads |-> Idle]

\* One call of _link_symptoms_to_causes(events).
LinkSymptomsToCauses ==
    /\ events # <<>>
    /\ \E pick \in (IF AllBodyParts(events) = {} THEN {None}
                    ELSE FirstOfSet(AllBodyParts(events))) :
          linked' = link_symptoms_to_causes(events, pick)
    /\ UNCHANGED <<next_id, requests, registry, archive, knowledge_base, conversations, report,
                 events, family_updates, agent_knowledge_base, event_mentions>>

NextLink == LinkSymptomsToCauses

SpecLink == InitLink /\ [][NextLink]_vars

(***************************************************************************)
(* _consolidate_health_events                                              *)
(* A mention is [timestamp, text, keyword, body_part, type]; event_mentions*)
(* is the sequence of the items (key, mentions) of the dictionary in       *)
(* insertion order, a key being the words that "_" joins.                  *)
(***************************************************************************)
\* sorted(dated_mentions, key=timestamp) is stable: a mention goes behind
\* the mentions that are not later than it.
InsertMention(sorted, m) ==
    LET k == Cardinality({i \in DOMAIN sorted : sorted[i].timestamp <= m.timestamp})
    IN  SubSeq(sorted, 1, k) \o <<m>> \o SubSeq(sorted, k + 1, Len(sorted))

IsDated(m) == m.timestamp # 0

\* Lines 1329-1333: the dated mentions in date order when there is one.
SortedMentions(mentions) ==
    IF SelectSeq(mentions, IsDated) # <<>>
    THEN FoldLeft(InsertMention, <<>>, SelectSeq(mentions, IsDated))
    ELSE mentions

\* 'fall' in event_key
KeyHasFall(key) == \E i \in DOMAIN key : "fall" \in Subs(key[i])

\* Lines 1344-1349: the body part of the first mention that has one.
FirstBodyPart(sorted_mentions) ==
    LET with == SelectSeq(sorted_mentions, LAMBDA m : m.body_part # None)
    IN  IF with = <<>> THEN None ELSE with[1].body_part

ModerateMentions == 3

\* Lines 1351-1358.
GroupSeverity(key, sorted_mentions) ==
    IF sorted_mentions[1].keyword \in {"fell", "fall", "fallen", "ladder"}
       \/ KeyHasFall(key)
    THEN "high"
    ELSE IF sorted_mentions[1].type = "injury" THEN "high"
    ELSE IF Len(sorted_mentions) >= ModerateMentions THEN "moderate"
    ELSE "low"

\* Lines 1361-1368.
GroupTitle(key, keyword, body_part) ==
    IF KeyHasFall(key) THEN FallTitle(body_part) ELSE EventTitle(keyword, body_part)

\* max(descriptions, key=len): the first of the longest texts.
LongestText(sorted_mentions, title) ==
    LET texts == SelectSeq(sorted_mentions, LAMBDA m : m.text # <<>>)
    IN  IF texts = <<>> THEN title
        ELSE texts[CHOOSE i \in DOMAIN texts :
                     /\ \A j \in DOMAIN texts : CharLen(texts[j].text) <= CharLen(texts[i].text)
                     /\ \A j \in 1..(i - 1) : CharLen(texts[j].text) < CharLen(texts[i].text)].text

\* Lines 1335-1402: the event of one item. The md5 identifier of key and
\* first timestamp is the position of the item: keys are distinct.
GroupEvent(position, key, sorted_mentions, body_part) ==
    [event_id |-> position,
     type |-> sorted_mentions[1].type,
     severity |-> GroupSeverity(key, sorted_mentions),
     title |-> GroupTitle(key, sorted_mentions[1].keyword, body_part),
     description |->
         SmartTruncate(LongestText(sorted_mentions,
             GroupTitle(key, sorted_mentions[1].keyword, body_part))),
     detected_on |-> sorted_mentions[1].timestamp,
     last_mentioned |-> sorted_mentions[Len(sorted_mentions)].timestamp,
     body_part |-> body_part,
     keyword |-> sorted_mentions[1].keyword,
     related_symptoms |-> <<>>,
     mentions_count |-> Len(sorted_mentions),
     needs_family_followup |-> GroupSeverity(key, sorted_mentions) = "high",
     linked_to |-> 0,
     linked_to_title |-> <<>>]

consolidate_health_events(mentions_by_key) ==
    LET kept == SelectSeq([i \in DOMAIN mentions_by_key |->
                              [position |-> i,
                               key |-> mentions_by_key[i].key,
                               sorted |-> SortedMentions(mentions_by_key[i].mentions)]],
                          LAMBDA item : item.sorted # <<>>)
    IN  [i \in DOMAIN kept |->
            GroupEvent(kept[i].position, kept[i].key, kept[i].sorted,
                       FirstBodyPart(kept[i].sorted))]

(***************************************************************************)
(* _extract_health_mentions                                                *)
(***************************************************************************)
injury_keywords ==
    << "fell", "fall", "fallen", "hurt", "injured", "injury", "accident",
       "broke", "broken", "sprain", "strain", "cut", "bruise", "hit",
       "twisted", "pulled", "torn", "fracture", "bump", "crash", "ladder" >>

symptom_keywords ==
    << "pain", "ache", "sore", "stiff", "tired", "fatigue", "weak",
       "dizzy", "numb", "swollen", "inflammation", "discomfort",
       "trouble sleeping", "can't sleep", "insomnia", "headache",
       "sleeping sitting", "not sleeping" >>

\* event_mentions[event_key].append(mention) on a defaultdict(list)
AddMention(mentions_by_key, key, m) ==
    IF \E i \in DOMAIN mentions_by_key : mentions_by_key[i].key = key
    THEN [i \in DOMAIN mentions_by_key |->
            IF mentions_by_key[i].key = key
            THEN [mentions_by_key[i] EXCEPT !.mentions = Append(@, m)]
            ELSE mentions_by_key[i]]
    ELSE Append(mentions_by_key, [key |-> key, mentions |-> <<m>>])

\* The mention of a keyword found in a text. _extract_context returns the
\* text from 80 characters before the keyword to 150 after it: of a text of
\* the vocabulary, which is shorter, the whole text.
Mention(text, timestamp, keyword, type) ==
    [timestamp |-> timestamp, text |-> text, keyword |-> keyword,
     body_part |-> ExtractBodyPart(text), type |-> type]

\* body_part or 'general'
PartOrGeneral(text) ==
    IF ExtractBodyPart(text) = None THEN "general" ELSE ExtractBodyPart(text)

\* Lines 1196-1219: every fall goes to the one key.
ExtractFall(mentions_by_key, text, timestamp) ==
    IF HasFall(text)
    THEN AddMention(mentions_by_key, <<"injury", "fall", "primary">>,
                    Mention(text, timestamp, "fall", "injury"))
    ELSE mentions_by_key

\* Lines 1221-1242: the first injury keyword of a text without a fall; the
\* later keywords find the key of the text in other_injuries_found.
ExtractInjury(mentions_by_key, text, timestamp) ==
    LET found == SelectSeq(injury_keywords,
                     LAMBDA kw : KwIn(<<kw>>, text)
                                 /\ kw \notin {"fell", "fall", "fallen", "ladder"})
    IN  IF HasFall(text) \/ found = <<>> THEN mentions_by_key
        ELSE AddMention(mentions_by_key,
                        <<"injury", found[1], PartOrGeneral(text)>>,
                        Mention(text, timestamp, found[1], "injury"))

\* Lines 1250-1256: the type a symptom keyword stands for.
SymptomType(keyword) ==
    IF keyword \in {"pain", "ache", "headache"} THEN "pain"
    ELSE IF keyword \in {"trouble sleeping", "can't sleep", "sleeping sitting",
                         "not sleeping"} THEN "sleep"
    ELSE keyword

\* Lines 1245-1275: one mention for each symptom type of the text.
ExtractSymptoms(mentions_by_key, text, timestamp) ==
    LET Step(acc, keyword) ==
            IF KwIn(<<keyword>>, text) /\ SymptomType(keyword) \notin acc.found
            THEN [found |-> acc.found \cup {SymptomType(keyword)},
                  out |-> AddMention(acc.out,
                              <<"symptom", SymptomType(keyword), PartOrGeneral(text)>>,
                              Mention(text, timestamp, keyword, "symptom"))]
            ELSE acc
    IN  FoldLeft(Step, [found |-> {}, out |-> mentions_by_key], symptom_keywords).out

extract_health_mentions(mentions_by_key, text, timestamp) ==
    IF text = <<>> THEN mentions_by_key
    ELSE ExtractSymptoms(
             ExtractInjury(ExtractFall(mentions_by_key, text, timestamp),
                           text, timestamp),
             text, timestamp)

(***************************************************************************)
(* The extractor, the consolidator and the linker called one after the     *)
(* other, on texts with their timestamps.                                  *)
(***************************************************************************)
MaxTexts == 3

HealthTexts ==
    { <<"fell", "off", "the", "ladder">>,
      <<"hurt", "my", "back">>,
      <<"knee", "is", "sore">>,
      <<"pain", "in", "my", "shoulder">> }

\* The number of mentions gathered so far.
RECURSIVE CountMentions(_)
CountMentions(mentions_by_key) ==
    IF mentions_by_key = <<>> THEN 0
    ELSE Len(Head(mentions_by_key).mentions) + CountMentions(Tail(mentions_by_key))

ExtractHealthMentions ==
    /\ events = <<>>
    /\ CountMentions(event_mentions) < MaxTexts
    /\ \E text \in HealthTexts, timestamp \in Dates :
          event_mentions' = extract_health_mentions(event_mentions, text, timestamp)
    /\ UNCHANGED <<next_id, requests, registry, archive, knowledge_base, conversations, report,
                   events, linked, family_updates, agent_knowledge_base>>

ConsolidateHealthEvents ==
    /\ events = <<>>
    /\ event_mentions # <<>>
    /\ events' = consolidate_health_events(event_mentions)
    /\ UNCHANGED <<next_id, requests, registry, archive, knowledge_base, conversations, report,
                   linked, family_updates, agent_knowledge_base, event_mentions>>

NextPipeline ==
    \/ ExtractHealthMentions
    \/ ConsolidateHealthEvents
    \/ LinkSymptomsToCauses

SpecPipeline == Init /\ [][NextPipeline]_vars

(***************************************************************************)
(* Properties of the fall event of generate_dashboard                      *)
(***************************************************************************)
\* The sources of a conversation that mention a fall.
FallInSummary(conv) == HasFall(conv.summary)

FallInFlags(conv) == \E k \in 1..Len(conv.red_flags) : HasFall(conv.red_flags[k])

FallInTranscript(conv) == HasFall(ExtractUserContent(conv.transcript))

FallMentioned(conv) ==
    FallInSummary(conv) \/ FallInFlags(conv) \/ FallInTranscript(conv)

\* The number of (conversation, source) pairs that mention a fall.
FallSources(convs) ==
    LET Step(n, conv) == n + (IF FallInSummary(conv) THEN 1 ELSE 0)
                           + (IF FallInFlags(conv) THEN 1 ELSE 0)
                           + (IF FallInTranscript(conv) THEN 1 ELSE 0)
    IN  FoldLeft(Step, 0, convs)

\* The dated conversations that mention a fall, as a set of timestamps.
FallDates(convs) ==
    {convs[k].timestamp : k \in {j \in 1..Len(convs) :
        FallMentioned(convs[j]) /\ convs[j].timestamp # 0}}

EarliestOf(dates) == IF dates = {} THEN 0 ELSE CHOOSE d \in dates : \A e \in dates : d <= e

LatestOf(dates) == IF dates = {} THEN 0 ELSE CHOOSE d \in dates : \A e \in dates : d >= e

\* The events of a report whose title starts with "Fall Incident".
FallEvents(r) ==
    {k \in 1..Len(r.health_events) :
        /\ Len(r.health_events[k].title) >= 2
        /\ r.health_events[k].title[1] = "Fall"
        /\ r.health_events[k].title[2] = "Incident"}

\* C1: whenever a fall keyword occurs in a health summary, a red flag or the
\* user's transcript text of some conversation of the archive, the
\* health_events of the report hold exactly one event whose title starts
\* with "Fall Incident".
C1_ExactlyOneFallEvent ==
    report.success =>
        ((\E k \in 1..Len(conversations) : FallMentioned(conversations[k]))
            => Cardinality(FallEvents(report)) = 1)

\* C2: the fall event's mentions_count is at least the number of
\* (conversation, source) pairs, source a health summary, the red flags or
\* the user transcript, that mention a fall.
C2_MentionsCoverSources ==
    report.success =>
        \A k \in FallEvents(report) :
            report.health_events[k].mentions_count >= FallSources(conversations)

\* C3: the fall event's detected_on is the timestamp of the earliest
\* conversation that mentions the fall and its last_mentioned that of the
\* latest one; a conversation that does not mention the fall moves neither.
C3_FallDateRange ==
    report.success =>
        \A k \in FallEvents(report) :
            /\ report.health_events[k].detected_on
                  = EarliestOf(FallDates(conversations))
            /\ report.health_events[k].last_mentioned
                  = LatestOf(FallDates(conversations))

\* The sections of the report contract.
ReportSections ==
    {"summary", "health_events", "health_insights", "in_their_words",
     "life_story", "weekly_updates", "alerts", "trends", "recommendations"}

\* C9: the report of a registered tester with no conversation file is a
\* success report with summary.total_conversations = 0 that holds every
\* section of the report contract (a section the report holds is a record
\* or a list, never null).
C9_EmptyReportComplete ==
    (report.success /\ conversations = <<>>) =>
        /\ report.summary.total_conversations = 0
        /\ \A section \in ReportSections : section \in DOMAIN report

(***************************************************************************)
(* Properties of _link_symptoms_to_causes                                  *)
(***************************************************************************)
Injuries(evs) == {k \in 1..Len(evs) : evs[k].type = "injury"}

Symptoms(evs) == {k \in 1..Len(evs) : evs[k].type = "symptom"}

\* The fall events of a list of events, as the set of their titles and
\* body parts.
FallOutcome(evs) ==
    {[title |-> evs[k].title, body_part |-> evs[k].body_part] :
        k \in {j \in Injuries(evs) : IsFallInjury(evs[j])}}

\* The title and the body_part of every fall event name one body part of
\* the fall events of the argument.
TitleNamesRecoveredPart ==
    (linked # <<>> /\ AllBodyParts(events) # {}) =>
        \A f \in FallOutcome(linked) :
            /\ f.body_part \in AllBodyParts(events)
            /\ f.title = <<"Fall", "Incident", "-", TitleCase(f.body_part), "Injury">>

\* Two calls on the same events give the same fall event.
SameTitleEveryCall ==
    (linked # <<>> /\ linked' # <<>> /\ events' = events) =>
        FallOutcome(linked') = FallOutcome(linked)

C5_CauseNotAfterSymptom ==
    \A s \in Symptoms(linked) :
        linked[s].linked_to # 0 =>
            /\ \E c \in Injuries(linked) : linked[c].event_id = linked[s].linked_to
            /\ \A c \in Injuries(linked) :
                  linked[c].event_id = linked[s].linked_to =>
                      \/ linked[c].detected_on = 0
                      \/ linked[c].detected_on <= linked[s].detected_on

\* A symptom is linked to an injury dated on or before it while an injury
\* of its body part dated after it was among the events.
C5_Witness ==
    \E s \in Symptoms(linked) : \E c \in Injuries(linked) :
        /\ linked[s].linked_to = linked[c].event_id
        /\ linked[c].detected_on # 0
        /\ linked[c].detected_on <= linked[s].detected_on
        /\ \E i \in Injuries(linked) :
              /\ linked[i].detected_on > linked[s].detected_on
              /\ linked[i].body_part = linked[s].body_part

\* The injuries of the result that qualify as the cause of symptom s by
\* date and by body part.
EligibleCauses(s) ==
    {c \in Injuries(linked) :
        /\ linked[c].detected_on = 0 \/ linked[c].detected_on <= linked[s].detected_on
        /\ \/ linked[c].body_part = linked[s].body_part
           \/ linked[c].body_part = None
           \/ linked[s].body_part = None}

\* Symptom s has no matching body part: it names none, or no injury of
\* the result has its body part.
NoMatchingBodyPart(s) ==
    \/ linked[s].body_part = None
    \/ \A c \in Injuries(linked) : linked[c].body_part # linked[s].body_part

\* The place of an injury in the list of merged injuries: the merged fall
\* event first, then the others in the order of the argument.
MergedRank(c) == IF IsFallInjury(linked[c]) THEN 0 ELSE linked[c].event_id

\* C6 as stated: a symptom with no matching body part is linked to the
\* eligible injury with the greatest detected_on.
C6_MostRecentCause ==
    \A s \in Symptoms(linked) :
        (NoMatchingBodyPart(s) /\ EligibleCauses(s) # {}) =>
            \E c \in EligibleCauses(s) :
                /\ linked[s].linked_to = linked[c].event_id
                /\ \A d \in EligibleCauses(s) :
                      linked[d].detected_on <= linked[c].detected_on

\* C6, amended: a symptom is linked to the first eligible injury in the
\* order of the merged injuries (the merged fall event, then the other
\* injuries in input order), whatever the dates of the eligible injuries
\* after it; it stays unlinked when no injury is eligible.
C6_FirstEligibleCause ==
    \A s \in Symptoms(linked) :
        IF EligibleCauses(s) = {} THEN linked[s].linked_to = 0
        ELSE \E c \in EligibleCauses(s) :
                /\ linked[s].linked_to = linked[c].event_id
                /\ \A d \in EligibleCauses(s) : MergedRank(c) <= MergedRank(d)

\* A symptom without a body part is linked to the first of two eligible
\* injuries although the second is dated later.
C6_Witness ==
    \E s \in Symptoms(linked) : \E c, d \in EligibleCauses(s) :
        /\ linked[s].body_part = None
        /\ linked[s].linked_to = linked[c].event_id
        /\ MergedRank(c) < MergedRank(d)
        /\ linked[c].detected_on < linked[d].detected_on

(***************************************************************************)
(* Properties of in_their_words and of the life_story themes               *)
(***************************************************************************)
\* The quotes of the themes of in_their_words, as [theme, entry] records.
ShownQuotes(r) ==
    LET themes == r.in_their_words.themes
    IN  UNION {{[theme |-> themes[k].theme_id, entry |-> themes[k].quotes[j]] :
                  j \in 1..Len(themes[k].quotes)} : k \in 1..Len(themes)}

\* The excerpts of the stories of the life_story themes.
StoryExcerpts(r) ==
    LET themes == r.life_story.themes
    IN  UNION {{themes[k].stories[j].excerpt : j \in 1..Len(themes[k].stories)} :
                  k \in 1..Len(themes)}

\* The quotes the conversations of the request hold.
GivenQuotes(convs) == UNION {Range(convs[k].quotes) : k \in 1..Len(convs)}

\* C7: no theme of in_their_words, and no life_story theme, shows a quote
\* that matches a meta pattern or has fewer than five words.
C7_NoMetaOrShortQuoteShown ==
    report.success =>
        /\ \A q \in ShownQuotes(report) :
              ~is_meta_quote(q.entry.quote) /\ Len(q.entry.quote) >= 5
        /\ \A excerpt \in StoryExcerpts(report) :
              ~is_meta_quote(excerpt) /\ Len(excerpt) >= 5

\* The conversations hold a meta quote and a quote of fewer than five
\* words, and the report shows quotes and stories without them.
C7_Witness ==
    /\ report.success
    /\ \E q \in GivenQuotes(conversations) : is_meta_quote(q)
    /\ \E q \in GivenQuotes(conversations) : ~is_meta_quote(q) /\ Len(q) < 5
    /\ ShownQuotes(report) # {}
    /\ StoryExcerpts(report) # {}

\* C8: every quote of the archive that passes the filter and has a theme
\* is shown in the quotes of exactly one theme of in_their_words.
C8_ExactlyOneTheme ==
    report.success =>
        \A k \in 1..Len(conversations) :
            \A q \in Range(conversations[k].quotes) :
                (/\ SurvivesFilter(q)
                 /\ QuoteTheme(q, conversations[k].topics) \notin meta_themes)
                => Cardinality({s.theme : s \in {t \in ShownQuotes(report) :
                                                   t.entry.quote = q}}) = 1

\* Some sentiment class of _analyze_quote_sentiment matches the quote.
SentimentClassMatches(quote) ==
    \E class \in {pain_words, struggle_words, recovery_words, worry_words,
                  gratitude_words, joy_words, nostalgia_words, wisdom_words} :
        AnyKwIn(class, quote)

\* C10: a shown quote with a pain word has mood Persevering, one with a
\* struggle word and no pain word has mood Struggling, neither is Happy;
\* a quote no sentiment class matches has the mood label of a conversation
\* that holds it.
C10_WordingOverridesMood ==
    report.success =>
        \A q \in ShownQuotes(report) :
            /\ AnyKwIn(pain_words, q.entry.quote) => q.entry.mood = "Persevering"
            /\ (AnyKwIn(struggle_words, q.entry.quote)
                   /\ ~AnyKwIn(pain_words, q.entry.quote))
                  => q.entry.mood = "Struggling"
            /\ (AnyKwIn(pain_words, q.entry.quote)
                   \/ AnyKwIn(struggle_words, q.entry.quote))
                  => q.entry.mood # "Happy"
            /\ ~SentimentClassMatches(q.entry.quote) =>
                  \E k \in 1..Len(conversations) :
                      /\ q.entry.quote \in Range(conversations[k].quotes)
                      /\ q.entry.mood = ConvMoodLabel(conversations[k].mood)

\* Conversations of positive mood hold a quote with a pain word and a
\* quote with a struggle word only; the report shows the first as
\* Persevering and the second as Struggling.
C10_Witness ==
    /\ report.success
    /\ \A k \in 1..Len(conversations) : conversations[k].mood = "positive"
    /\ \E q \in ShownQuotes(report) :
          AnyKwIn(pain_words, q.entry.quote) /\ q.entry.mood = "Persevering"
    /\ \E q \in ShownQuotes(report) :
          /\ ~AnyKwIn(pain_words, q.entry.quote)
          /\ AnyKwIn(struggle_words, q.entry.quote)
          /\ q.entry.mood = "Struggling"

(***************************************************************************)
(* Claims about the files of the archive                                   *)
(***************************************************************************)
\* The value the specification gives an absent path: the empty string or
\* list, and the neutral mood.
NeutralDefaults ==
    [timestamp |-> 0, transcript |-> <<>>, summary |-> <<>>, red_flags |-> <<>>,
     mood |-> "neutral", topics |-> <<>>, quotes |-> <<>>]

Defaulted(conv) ==
    [key \in DOMAIN NeutralDefaults |->
        IF key \in DOMAIN conv THEN conv[key] ELSE NeutralDefaults[key]]

AllDefaulted(convs) == [i \in DOMAIN convs |-> Defaulted(convs[i])]

LacksField(conv) == DOMAIN conv # DOMAIN NeutralDefaults

RECURSIVE ReadableRecords(_)
ReadableRecords(files) ==
    IF files = <<>> THEN <<>>
    ELSE (IF "error" \in DOMAIN Head(files) THEN <<>> ELSE <<Head(files)>>)
         \o ReadableRecords(Tail(files))

\* C12: a malformed file is skipped and does not abort the request:
\* _load_conversations returns exactly the records of the readable files in
\* file-name order, and the report returned is the one built from them.
C12_MalformedFileSkipped ==
    report \notin {NoReport, NotFound}
        => /\ conversations = ReadableRecords(archive)
           /\ report.success
           /\ report.summary.total_conversations = Len(ReadableRecords(archive))
           /\ report = Dashboard("BT001",
                                 ReadConversations(ReadableRecords(archive)),
                                 knowledge_base)

\* A report was returned for an archive whose first file is malformed and
\* whose second file is a record.
C12_Witness ==
    /\ report.success
    /\ Len(archive) = 2
    /\ archive[1] = Malformed
    /\ archive[2] # Malformed
    /\ report.summary.total_conversations = 1

\* C13: a request for an identifier that is not in the registry returns the
\* not-found result and loads no conversation: a successful report is
\* returned for registered testers only, and with the not-found result
\* nothing has been read.
C13_UnknownTesterNotFound ==
    /\ report.success => report.beta_id \in registry
    /\ report = NotFound => conversations = <<>>
    /\ registry = {} => report \in {NoReport, NotFound}

\* The not-found result was returned while the registered tester has
\* conversations on disk: the request named the unknown tester.
C13_Witness ==
    /\ report = NotFound
    /\ "BT001" \in registry
    /\ \E i \in DOMAIN archive : archive[i] # Malformed
    /\ conversations = <<>>

(***************************************************************************)
(* Claims about the stored state                                           *)
(***************************************************************************)
\* A step that leaves a result is a dashboard request.
IsRequest == report' # NoReport

\* C14: a dashboard request leaves the registry, the conversation archive
\* and the knowledge-base document as they were, so a request that follows
\* another for the same tester returns the same report.
C14_RequestLeavesStoredState ==
    [][IsRequest =>
          /\ registry' = registry
          /\ archive' = archive
          /\ knowledge_base' = knowledge_base
          /\ (report.success /\ report'.success) => report' = report]_vars

\* A report was returned from a non-empty archive and a non-empty
\* knowledge base, both still in place.
C14_Witness ==
    /\ report.success
    /\ Len(conversations) = 2
    /\ Len(archive) = 2
    /\ knowledge_base # <<>>

\* C15: once the conversation-ended webhook has processed a call of the
\* tester's agent, the conversations/ collection holds exactly one more
\* JSON record, so the next report counts one conversation more.
C15_WebhookStoresConversation ==
    [][family_updates' # family_updates
          => /\ Len(archive') = Len(archive) + 1
             /\ Len(LoadConversations(archive'))
                    = Len(LoadConversations(archive)) + 1]_vars

(***************************************************************************)
(* Claims about the speakers of a transcript                               *)
(***************************************************************************)
\* The words the user said: the lines tagged "User:" and the untagged lines
\* that continue them, up to the next line that carries a speaker tag.
UtteranceStep(acc, line) ==
    IF line.tag = "User:"
    THEN [by_user |-> TRUE, words |-> acc.words \o line.words]
    ELSE IF line.tag # ""
    THEN [by_user |-> FALSE, words |-> acc.words]
    ELSE IF acc.by_user
    THEN [by_user |-> TRUE, words |-> acc.words \o line.words]
    ELSE acc

UserUtterances(transcript) ==
    FoldLeft(UtteranceStep, [by_user |-> FALSE, words |-> <<>>], transcript).words

\* No summary, red flag or utterance of the user mentions a fall, and the
\* knowledge base mentions none.
NoFallOutsideAgentLines ==
    /\ ~HasFall(knowledge_base)
    /\ \A k \in 1..Len(conversations) :
          /\ ~FallInSummary(conversations[k])
          /\ ~FallInFlags(conversations[k])
          /\ ~HasFall(UserUtterances(conversations[k].transcript))

\* C16: only what the user said counts: when a fall keyword occurs in the
\* agent's lines alone, whatever tag the agent's lines carry, the report
\* holds no fall event.
C16_AgentLinesNotScanned ==
    (report.success /\ NoFallOutsideAgentLines) => FallEvents(report) = {}

(***************************************************************************)
(* Claims about the consolidator                                           *)
(***************************************************************************)
\* The item of event_mentions an event was made of.
GroupOf(e) == event_mentions[e.event_id]

IsFallGroup(e) == GroupOf(e).key[2] = "fall"

\* C19: every fall event and every event of type injury has severity high;
\* the event of a symptom group has severity moderate when the group holds
\* three or more mentions and low when it holds fewer; an event needs the
\* family's follow-up exactly when its severity is high.
C19_SeverityPolicy ==
    \A k \in DOMAIN events :
        /\ (IsFallGroup(events[k]) \/ events[k].type = "injury")
              => events[k].severity = "high"
        /\ (~IsFallGroup(events[k]) /\ events[k].type = "symptom")
              => events[k].severity =
                    (IF Len(GroupOf(events[k]).mentions) >= 3 THEN "moderate" ELSE "low")
        /\ events[k].needs_family_followup <=> (events[k].severity = "high")

(***************************************************************************)
(* Claims about the pipeline behind health_events                          *)
(***************************************************************************)
\* The mentions the extractor gathers from one record: from its health
\* summary, its red flags and what the user said, at the record's date.
GatherConversation(mentions_by_key, conv) ==
    LET GatherFlag(acc, flag) == extract_health_mentions(acc, flag, conv.timestamp)
    IN  extract_health_mentions(
            FoldLeft(GatherFlag,
                     extract_health_mentions(mentions_by_key, conv.summary,
                                             conv.timestamp),
                     conv.red_flags),
            ExtractUserContent(conv.transcript), conv.timestamp)

\* The mentions gathered from the archive and the knowledge base.
GatherMentions(convs, kb) ==
    extract_health_mentions(FoldLeft(GatherConversation, <<>>, convs), kb, 0)

TypesAndTitles(evs) == {[type |-> evs[k].type, title |-> evs[k].title] : k \in DOMAIN evs}

\* The events of the report are, by type and title, those the linker
\* returns for the given consolidated events.
SameEventsAs(r, evs) ==
    \E pick \in (IF AllBodyParts(evs) = {} THEN {None} ELSE FirstOfSet(AllBodyParts(evs))) :
        TypesAndTitles(r.health_events)
            = TypesAndTitles(link_symptoms_to_causes(evs, pick))

\* C17: the health_events of a report are the events the linker returns
\* for the consolidated mentions the extractor gathers from the archive,
\* so an injury without a fall and a symptom are events of the report.
C17_HealthEventsFromPipeline ==
    report.success
        => SameEventsAs(report,
               consolidate_health_events(
                   GatherMentions(ReadConversations(conversations), knowledge_base)))

(***************************************************************************)
(* Claims about the merging of injury events                               *)
(***************************************************************************)
FallIn(evs) == {k \in Injuries(evs) : IsFallInjury(evs[k])}

OtherIn(evs, body) ==
    {k \in Injuries(evs) : ~IsFallInjury(evs[k]) /\ BodyKey(evs[k]) = body}

RECURSIVE SumMentions(_, _)
SumMentions(evs, ks) ==
    IF ks = {} THEN 0
    ELSE LET k == CHOOSE x \in ks : TRUE
         IN  evs[k].mentions_count + SumMentions(evs, ks \ {k})

\* The events merged of the result are one event made of the events given
\* of the argument: its dates are the earliest and the latest non-empty
\* date of them and its count is the sum of their counts.
MergedFrom(merged, given) ==
    IF given = {} THEN merged = {}
    ELSE /\ Cardinality(merged) = 1
         /\ \A m \in merged :
              /\ linked[m].detected_on
                    = EarliestOf({events[k].detected_on : k \in given} \ {0})
              /\ linked[m].last_mentioned
                    = LatestOf({events[k].last_mentioned : k \in given} \ {0})
              /\ linked[m].mentions_count = SumMentions(events, given)

\* C18: the fall events of the argument become one event and the other
\* injury events of one body part become one event, each with the earliest
\* detected_on, the latest last_mentioned and the sum of the mentions of the
\* events merged, so the mentions of all injury events add up to the same
\* number before and after.
C18_MergeKeepsDatesAndMentions ==
    linked # <<>>
        => /\ MergedFrom(FallIn(linked), FallIn(events))
           /\ \A body \in {"general"} \cup (BodyInputs \ {None}) :
                 MergedFrom(OtherIn(linked, body), OtherIn(events, body))
           /\ SumMentions(linked, Injuries(linked))
                 = SumMentions(events, Injuries(events))

\* Three fall events of three dates, one of them empty, were merged into
\* one event of six mentions.
C18_Witness ==
    /\ linked # <<>>
    /\ Cardinality(FallIn(events)) = 3
    /\ {events[k].detected_on : k \in FallIn(events)} = Dates
    /\ \E m \in FallIn(linked) :
          /\ linked[m].mentions_count = 6
          /\ linked[m].detected_on = 1
          /\ linked[m].last_mentioned = 2

(***************************************************************************)
(* Claims about the two sides of a link                                    *)
(***************************************************************************)
\* The injury c of the result lists the symptom s among its related_symptoms.
ListsSymptom(c, s) ==
    \E n \in DOMAIN linked[c].related_symptoms :
        linked[c].related_symptoms[n].event_id = linked[s].event_id

\* C20: a link is written on both sides and a symptom has one link at
\* most: an injury lists a symptom among its related_symptoms exactly when
\* the linked_to of the symptom is the event_id of the injury, and no
\* symptom is listed by two injuries.
C20_LinksOnBothSides ==
    \A s \in Symptoms(linked) :
        /\ \A c \in Injuries(linked) :
              ListsSymptom(c, s) <=> (linked[s].linked_to = linked[c].event_id)
        /\ Cardinality({c \in Injuries(linked) : ListsSymptom(c, s)}) <= 1
        /\ linked[s].linked_to # 0
              => \E c \in Injuries(linked) :
                    /\ linked[c].event_id = linked[s].linked_to
                    /\ linked[s].linked_to_title = linked[c].title

\* Two injuries of the result are causes the symptom may have, and the
\* symptom is linked to one of them.
C20_Witness ==
    /\ Cardinality(Injuries(linked)) = 2
    /\ \E s \in Symptoms(linked) :
          /\ linked[s].linked_to # 0
          /\ \A c \in Injuries(linked) : Eligible(linked[c], linked[s])
          /\ Cardinality({c \in Injuries(linked) : ListsSymptom(c, s)}) = 1

(***************************************************************************)
(* C21: every genuine health red flag that no health event covers is       *)
(* among the alerts of the report, up to the de-duplication by message and *)
(* the cap of five alerts.  A flag is genuine when none of its words is a  *)
(* technical term; an event covers a flag that speaks of the event's       *)
(* incident (a fall) or of its body part.                                  *)
(***************************************************************************)
GenuineFlag(flag) ==
    /\ flag # <<>>
    /\ \A i \in 1..Len(flag) :
          \A k \in 1..Len(false_alarm_keywords) :
             flag[i] # false_alarm_keywords[k][1]

Covers(e, flag) ==
    \/ HasFall(flag)
    \/ e.body_part # None /\ KwIn(<<e.body_part>>, flag)

FlagsOf(convs) ==
    UNION { Range(convs[k].red_flags) : k \in 1..Len(convs) }

C21_UncoveredFlagsAlerted ==
    report.success =>
        \A flag \in FlagsOf(ReadConversations(conversations)) :
            ( /\ GenuineFlag(flag)
              /\ \A k \in 1..Len(report.health_events) :
                    ~Covers(report.health_events[k], flag)
              /\ Len(report.alerts) < MaxAlerts )
            => \E a \in 1..Len(report.alerts) :
                  DedupKey(report.alerts[a].message) = DedupKey(flag)

(***************************************************************************)
(* C22: the weekly section covers exactly the conversations timestamped    *)
(* within the last seven days when there is one (period 'This Week');      *)
(* otherwise the latest min(3, n) conversations of a non-empty list        *)
(* (period 'Recent'); the empty list gives the empty shape with count 0.   *)
(* The highlights name the covered conversations, the latest of the list   *)
(* first, and are at most seven.                                           *)
(***************************************************************************)
WithinLastWeek(convs) ==
    SelectSeq(convs, LAMBDA c : c.timestamp # 0 /\ Now - c.timestamp <= WeekDays)

Latest(convs, n) == SubSeq(convs, Len(convs) - n + 1, Len(convs))

Covered(convs) ==
    IF WithinLastWeek(convs) # <<>> THEN WithinLastWeek(convs)
    ELSE Latest(convs, Min(RecentConvs, Len(convs)))

HighlightsName(highlights, covered) ==
    /\ Len(highlights) = Min(7, Len(covered))
    /\ \A k \in 1..Len(highlights) :
          highlights[k].day_date = covered[Len(covered) + 1 - k].timestamp

SpecificThemes(quote) ==
    { specific_keywords[k].theme :
        k \in {i \in 1..Len(specific_keywords) :
                 KwIn(specific_keywords[i].key, quote)} }

MatchesCategory(k, quote) ==
    /\ \E i \in 1..Len(topic_categories[k].keywords) :
          KwIn(topic_categories[k].keywords[i], quote)
    /\ \A b \in 1..Len(category_blockers(topic_categories[k].category)) :
          ~KwIn(category_blockers(topic_categories[k].category)[b], quote)

BroadCategories(quote) ==
    {k \in 1..Len(topic_categories) : MatchesCategory(k, quote)}

RealTopics(topics) ==
    {k \in 1..Len(topics) : topics[k] # <<>> /\ ~is_meta_topic(topics[k])}

StagedTheme(theme_id, quote, topics) ==
    IF SpecificThemes(quote) # {} THEN theme_id \in SpecificThemes(quote)
    ELSE IF BroadCategories(quote) # {}
    THEN /\ \E k \in BroadCategories(quote) :
               /\ theme_id = topic_categories[k].category
               /\ \A h \in BroadCategories(quote) : k <= h
    ELSE IF RealTopics(topics) # {}
    THEN \E k \in RealTopics(topics) :
            /\ theme_id = normalize_theme_id(topics[k])
            /\ \A h \in RealTopics(topics) : k <= h
    ELSE theme_id = "general"

C23_CategorizeInPriorityOrder ==
    report.success =>
        /\ StagedTheme(report.theme_id, conversations[1].quotes[1],
                       conversations[1].topics)
        /\ \A k \in 1..Len(report.in_their_words.themes) :
              report.in_their_words.themes[k].theme_id # "general"

\* A quote with the specific phrase 'back pain' and the broad keyword
\* 'pain' of category health is given the theme of the phrase.
C23_Witness ==
    /\ report.success
    /\ conversations[1].quotes[1] = <<"my", "back", "pain", "is", "so", "bad">>
    /\ BroadCategories(conversations[1].quotes[1]) # {}
    /\ report.theme_id = "health_recovery"
    /\ Len(report.in_their_words.themes) = 1
    /\ report.in_their_words.themes[1].theme_id = "health_recovery"

(***************************************************************************)
(* C24: a dashboard is always rendered from stored history: whatever       *)
(* family updates the webhook has written, with or without concerns, the   *)
(* answer of GET /api/family-dashboard for a registered tester is a        *)
(* success report and never an error.                                      *)
(***************************************************************************)
IsFamilyDashboard(r) == "health_trends" \in DOMAIN r \/ "error" \in DOMAIN r

C24_DashboardAlwaysRendered ==
    ( /\ IsFamilyDashboard(report)
      /\ report # NotFound
      /\ report # NoReport ) => report.success

(***************************************************************************)
(* C27: the conversation_count of GET /api/knowledge-base/<agent_id> is    *)
(* the number of conversations recorded in the agent's knowledge base,     *)
(* its 'Total conversations' value, and 0 when there is no knowledge base. *)
(***************************************************************************)
C27_CountIsTotalConversations ==
    "conversation_count" \in DOMAIN report =>
        report.conversation_count = agent_knowledge_base.total_conversations

(***************************************************************************)
(* C25: register_beta_tester never assigns the same beta_id twice and      *)
(* never overwrites a tester record: in every interleaving of              *)
(* registrations the registry holds as many testers as registrations have  *)
(* succeeded, and next_id is greater than every issued id.                 *)
(***************************************************************************)
Registered == {t \in Threads : requests[t].pc = "registered"}

\* No registration is under way.
AllAnswered == \A t \in Threads : requests[t].pc \in {"idle", "registered", "failed"}

C25_RegistrationsKeepIdsUnique ==
    AllAnswered =>
        /\ \A t, u \in Registered :
              t # u => requests[t].beta_id # requests[u].beta_id
        /\ Cardinality(registry) = Cardinality(Registered)
        /\ \A n \in 1..(MaxRequests + 1) : BetaId(n) \in registry => n < next_id

(***************************************************************************)
(* C26: every processed conversation-ended webhook adds exactly one        *)
(* session to the agent's knowledge base: once n webhooks of the agent     *)
(* have been processed, in any interleaving of their read and write steps, *)
(* the stored document holds the summaries of all n sessions and its       *)
(* 'Total conversations' value is n.                                       *)
(***************************************************************************)
Processed == {t \in Threads : requests[t].pc = "processed"}

C26_EveryWebhookAddsItsSession ==
    (\A t \in Threads : requests[t].pc # "analyzing") =>
        /\ agent_knowledge_base.total_conversations = Cardinality(Processed)
        /\ \A t \in Processed :
              \E k \in 1..Len(agent_knowledge_base.summaries) :
                 agent_knowledge_base.summaries[k].conversation_id = t

(***************************************************************************)
(* C28: the status of the summary is 'active' exactly when the last        *)
(* conversation took place fewer than 7 days ago, 0 to 6 days, a           *)
(* conversation held today included, and 'inactive' otherwise.             *)
(***************************************************************************)
LastTimestamp(convs) == convs[Len(convs)].timestamp

HeldInLastWeek(convs) ==
    /\ LastTimestamp(convs) # 0
    /\ Now - LastTimestamp(convs) \in 0..6

C28_ActiveWithinSevenDays ==
    (report.success /\ conversations # <<>>) =>
        report.summary.status =
            (IF HeldInLastWeek(conversations) THEN "active" ELSE "inactive")

(***************************************************************************)
(* C29: completeness_percent of the progress of the life story is a        *)
(* percentage, a value between 0 and 100, for every archive.               *)
(***************************************************************************)
C29_CompletenessIsPercentage ==
    report.success =>
        report.life_story.progress.completeness_percent \in 0..100

(***************************************************************************)
(* C30: the entries of wellbeing_timeline are in the chronological order   *)
(* of the calendar days they describe, the earlier day first, also when    *)
(* the two weeks span the end of a month, and every wellbeing score lies   *)
(* in 60..100.                                                             *)
(***************************************************************************)
\* The day a date key describes, under the clock of the model.
CalendarDay(date_key) ==
    IF date_key.month = "Nov"
    THEN FirstOfNovember + date_key.day - 1
    ELSE FirstOfNovember + date_key.day - 1 - OctoberDays

Chronological(timeline) ==
    \A i, j \in 1..Len(timeline) :
        i < j => CalendarDay(timeline[i].date) < CalendarDay(timeline[j].date)

WellbeingInRange(timeline) ==
    \A i \in 1..Len(timeline) : timeline[i].wellbeing \in 60..100

TimelineScored ==
    report.success => WellbeingInRange(report.health_insights.wellbeing_timeline)

C30_TimelineChronologicalAndScored ==
    report.success =>
        /\ Chronological(report.health_insights.wellbeing_timeline)
        /\ WellbeingInRange(report.health_insights.wellbeing_timeline)

============================================================================
